---- MODULE Spec2Model ----
(***************************************************************************)
(* A model of mcp-obsidian: the REST client (obsidian.py) and the tool     *)
(* handlers (tools.py).                                                    *)
(*                                                                         *)
(* Text is modelled as a sequence of atoms.  An atom is either a single    *)
(* character ("a", "/", "\\", " ", a digit) or a literal chunk of the      *)
(* source ("Request failed: ").  Python's f-strings and + become \o, and   *)
(* Python's `x in s` becomes Contains(s, x), so that a message really is   *)
(* assembled from its parts and a search in it can fail.                   *)
(***************************************************************************)
EXTENDS Integers, Sequences, FiniteSets, TLC

VARIABLES
    config,    \* the process configuration: API key and host (tools.py:12-13)
    call,      \* the invocation in progress or just finished: [name, args]
    reqs,      \* the HTTP requests the invocation issued, in order
    resps,     \* the answers the server (or the network) gave, in order
    outcome    \* how the invocation ended: pending, return or raise

vars == <<config, call, reqs, resps, outcome>>

-----------------------------------------------------------------------------
(* Bounds of the model *)

\* longest path string given to _normalize_path
MaxLen == 5

\* longest list of paths given to get_batch_file_contents
MaxBatch == 2

\* lines of a file given to find_headings
MaxLines == 3

-----------------------------------------------------------------------------
(* Text *)

Slash == "/"
Backslash == "\\"
Space == " "

\* the characters paths are made of
PathChars == {"a", Slash, Backslash, Space}

\* every string over PathChars of length at most n
StringsUpTo(n) == UNION {[1..k -> PathChars] : k \in 0..n}

\* Python's `x in s` for strings: x occurs in s as a contiguous run
Contains(s, x) ==
    \E i \in 0..(Len(s) - Len(x)) : SubSeq(s, i + 1, i + Len(x)) = x

\* Python's s.startswith(x)
StartsWith(s, x) == Len(x) <= Len(s) /\ SubSeq(s, 1, Len(x)) = x

\* Python's s.lstrip(chars) and s.rstrip(chars): drop characters of the set
\* from one end for as long as there are some
RECURSIVE LStrip(_, _)
LStrip(s, chars) ==
    IF s # <<>> /\ Head(s) \in chars THEN LStrip(Tail(s), chars) ELSE s

RECURSIVE RStrip(_, _)
RStrip(s, chars) ==
    IF s # <<>> /\ s[Len(s)] \in chars
    THEN RStrip(SubSeq(s, 1, Len(s) - 1), chars)
    ELSE s

\* Python's s.strip(chars); s.strip() is StripChars(s, Whitespace)
StripChars(s, chars) == RStrip(LStrip(s, chars), chars)

Whitespace == {Space}

\* Python's s.replace(old, new) for a single character old
ReplaceChar(s, old, new) == [i \in DOMAIN s |-> IF s[i] = old THEN new ELSE s[i]]

\* Python's s.replace('//', '/'): one pass, left to right, over the
\* non-overlapping occurrences
RECURSIVE ReplaceDoubleSlash(_)
ReplaceDoubleSlash(s) ==
    IF Len(s) < 2 THEN s
    ELSE IF s[1] = Slash /\ s[2] = Slash
         THEN <<Slash>> \o ReplaceDoubleSlash(SubSeq(s, 3, Len(s)))
         ELSE <<s[1]>> \o ReplaceDoubleSlash(Tail(s))

\* a single replace pass instead of the loop
CollapseSlashesOnce(s) == ReplaceDoubleSlash(s)

\* while '//' in path: path = path.replace('//', '/')
RECURSIVE CollapseSlashes(_)
CollapseSlashes(s) ==
    IF Contains(s, <<Slash, Slash>>)
    THEN CollapseSlashes(ReplaceDoubleSlash(s))
    ELSE s


\* Python's sep.join(parts)
RECURSIVE Join(_, _)
Join(sep, parts) ==
    IF parts = <<>> THEN <<>>
    ELSE IF Len(parts) = 1 THEN parts[1]
    ELSE parts[1] \o sep \o Join(sep, Tail(parts))

\* Python's s.split(sep) for a one-character sep: the runs between the
\* occurrences of sep, one more than there are occurrences
RECURSIVE SplitOn(_, _)
SplitOn(s, sep) ==
    IF \A i \in DOMAIN s : s[i] # sep THEN <<s>>
    ELSE LET k == CHOOSE i \in DOMAIN s : s[i] = sep /\ \A j \in 1..(i - 1) : s[j] # sep
         IN  <<SubSeq(s, 1, k - 1)>> \o SplitOn(SubSeq(s, k + 1, Len(s)), sep)

RECURSIVE StrNat(_)
StrNat(n) ==
    LET digit == <<"0", "1", "2", "3", "4", "5", "6", "7", "8", "9">>[(n % 10) + 1]
    IN  IF n < 10 THEN <<digit>> ELSE StrNat(n \div 10) \o <<digit>>

Str(n) == IF n < 0 THEN <<"-">> \o StrNat(0 - n) ELSE StrNat(n)

\* Python's str(b) of a bool
StrBool(b) == IF b THEN <<"True">> ELSE <<"False">>

\* An argument whose Python type matters (isinstance checks): an int, a
\* bool (True is 1, False is 0) or a str
IntVal(n) == [type |-> "int", val |-> n, text |-> <<>>]

BoolVal(b) == [type |-> "bool", val |-> IF b THEN 1 ELSE 0, text |-> <<>>]

TextVal(t) == [type |-> "str", val |-> 0, text |-> t]

\* bool(x): the truth value Python's `not x` and `if x` test
Truthy(x) == IF x.type = "str" THEN x.text # <<>> ELSE x.val # 0

\* str(x), also x formatted in an f-string
StrVal(x) ==
    CASE x.type = "int" -> Str(x.val)
      [] x.type = "bool" -> StrBool(x.val = 1)
      [] x.type = "str" -> x.text

\* Python's d1 | d2 on dicts
Merge(d1, d2) ==
    [k \in DOMAIN d1 \cup DOMAIN d2 |-> IF k \in DOMAIN d2 THEN d2[k] ELSE d1[k]]

\* urllib.parse.quote(s): every character outside the unreserved set and '/'
\* becomes its percent-escape
QuoteChar(c) ==
    CASE c = Space -> <<"%20">>
      [] c = ":" -> <<"%3A">>
      [] c = "#" -> <<"%23">>
      [] c = Backslash -> <<"%5C">>
      [] c = "\n" -> <<"%0A">>
      [] OTHER -> <<c>>

RECURSIVE Quote(_)
Quote(s) == IF s = <<>> THEN <<>> ELSE QuoteChar(Head(s)) \o Quote(Tail(s))

-----------------------------------------------------------------------------
(* Obsidian._normalize_path *)

_normalize_path(path) ==
    IF path = <<>> THEN <<>>
    ELSE CollapseSlashes(
             ReplaceChar(StripChars(StripChars(path, Whitespace), {Slash}),
                         Backslash, Slash))

-----------------------------------------------------------------------------
(* The states of an invocation *)

\* the element of a one-element set; Only({e(x) : x \in {v}}) is e with x
\* bound to the value of v, which is computed once
Only(S) == CHOOSE x \in S : TRUE

Pending == [kind |-> "pending", exc |-> "", value |-> <<>>]
Return(v) == [kind |-> "return", exc |-> "", value |-> v]
Raise(e, msg) == [kind |-> "raise", exc |-> e, value |-> msg]

-----------------------------------------------------------------------------
(* Process configuration and Obsidian.__init__ *)

\* OBSIDIAN_API_KEY (never empty: tools.py raises at import) and OBSIDIAN_HOST
Configs ==
    {[api_key |-> <<"key1">>, host |-> <<"127.0.0.1">>],
     [api_key |-> <<"key2">>, host |-> <<"obsidian.lan">>]}

DefaultPort == 27124

\* a client built without the configured host
ObsidianDefaultHost(cfg) ==
    [api_key |-> cfg.api_key, protocol |-> "https", host |-> <<"127.0.0.1">>,
     port |-> DefaultPort, verify_ssl |-> FALSE, timeout |-> <<3, 6>>]

\* obsidian.Obsidian(api_key=api_key, host=obsidian_host)
Obsidian(cfg) ==
    [api_key |-> cfg.api_key, protocol |-> "https", host |-> cfg.host,
     port |-> DefaultPort, verify_ssl |-> FALSE, timeout |-> <<3, 6>>]

get_base_url(self) ==
    <<self.protocol, "://">> \o self.host \o <<":">> \o Str(self.port)

\* an Authorization header that lacks the key
BearerWithoutKey(self) == [Authorization |-> <<"Bearer ">>]

_get_headers(self) == [Authorization |-> <<"Bearer ">> \o self.api_key]

-----------------------------------------------------------------------------
(* HTTP: the requests the client issues and the answers it can get *)

Http(self, verb, url, headers, params, data) ==
    [verb |-> verb, url |-> url, headers |-> headers, params |-> params,
     data |-> data, verify |-> self.verify_ssl, timeout |-> self.timeout]

\* a 2xx answer with a JSON body and a text body
Ok(json, text) ==
    [kind |-> "http", status |-> 200, content |-> TRUE, json |-> json, text |-> text]

\* The Local REST API answers an error with a JSON object holding errorCode
\* (the status followed by two digits) and message; the client also provides
\* for an empty body and for an object without these keys.
ErrorBodies(status) ==
    {[content |-> FALSE, json |-> <<>>],
     [content |-> TRUE, json |-> <<>>],
     [content |-> TRUE,
      json |-> [errorCode |-> Str(status * 100), message |-> <<"server message">>]]}

HttpErrors ==
    UNION {{[kind |-> "http", status |-> s, content |-> b.content, json |-> b.json,
             text |-> <<>>] : b \in ErrorBodies(s)} : s \in {400, 404, 500}}

ConnectionRefused == "Connection refused"

NetworkFailures ==
    {[kind |-> "net", status |-> 0, content |-> FALSE, json |-> <<>>, text |-> t] :
        t \in
    {<<"HTTPSConnectionPool: Max retries exceeded (Caused by NewConnectionError: [Errno 111] ",
           ConnectionRefused, ")">>,
         <<"HTTPSConnectionPool: Read timed out. (read timeout=6)">>,
         <<"HTTPSConnectionPool: Max retries exceeded (Caused by SSLError: certificate verify failed)">>,
         <<"HTTPSConnectionPool: Max retries exceeded (Caused by NameResolutionError: Name or service not known)">>}}

Failures == HttpErrors \cup NetworkFailures

\* response.raise_for_status() raises HTTPError
RaisesForStatus(r) == r.kind = "http" /\ r.status \in 400..599

\* what a call_fn that issued one request does with the answer
Run(rq, rs, out) == [reqs |-> rq, resps |-> rs, out |-> out]

-----------------------------------------------------------------------------
(* Obsidian._safe_call *)

\* context.get(key, '') on the context dict, a sequence of <<key, value>>
ContextGet(context, key) ==
    IF \E i \in DOMAIN context : context[i][1] = key
    THEN context[CHOOSE i \in DOMAIN context : context[i][1] = key][2]
    ELSE <<>>

\* the items of the context whose value is truthy (a non-empty string)
RECURSIVE NonEmptyItems(_)
NonEmptyItems(context) ==
    IF context = <<>> THEN <<>>
    ELSE IF Head(context)[2] # <<>>
         THEN <<Head(context)>> \o NonEmptyItems(Tail(context))
         ELSE NonEmptyItems(Tail(context))

\* ", ".join([f"{k}='{v}'" for k, v in context.items() if v])
ContextDetails(context) ==
    LET kept == NonEmptyItems(context)
    IN  Join(<<", ">>, [i \in DOMAIN kept |-> <<kept[i][1], "='">> \o kept[i][2] \o <<"'">>])

\* the except requests.HTTPError branch
HttpErrorMessage(r, operation, context) ==
    LET error_data == IF r.content THEN r.json ELSE <<>>
        code == IF "errorCode" \in DOMAIN error_data
                THEN error_data["errorCode"] ELSE Str(-1)
        message == IF "message" \in DOMAIN error_data
                   THEN error_data["message"] ELSE <<"<unknown>">>
        m0 == <<"Error ">> \o code \o <<": ">> \o message
        m1 == IF operation # <<>> THEN m0 \o <<"\nOperation: ">> \o operation ELSE m0
        m2 == IF context # <<>> /\ ContextDetails(context) # <<>>
              THEN m1 \o <<"\nContext: ">> \o ContextDetails(context)
              ELSE m1
    IN  IF r.status = 404
        THEN IF operation = <<"get_file_contents">>
             THEN m2 \o <<"\nSuggestion: Check if the file '">>
                     \o ContextGet(context, "filepath")
                     \o <<"' exists in your vault. Use list_files_in_vault() to see available files.">>
             ELSE IF operation = <<"patch_content">>
                  THEN m2 \o <<"\nSuggestion: Verify that the target exists in the document. For headings, ensure exact match including whitespace and case.">>
                  ELSE m2
        ELSE IF r.status = 400 /\ operation = <<"patch_content">>
             THEN m2 \o <<"\nSuggestion: Check that your operation, target_type, and target values are valid. Ensure target is properly URL-encoded if it contains special characters.">>
             ELSE m2

ConnectionHint(self) ==
    <<"\nSuggestion: Verify that Obsidian is running and the Local REST API plugin is enabled. Check that the host (">>
        \o self.host \o <<") and port (">> \o Str(self.port) \o <<") are correct.">>

\* the hint given whatever the failure
NetworkErrorMessageAlwaysHint(self, r, operation) ==
    LET m0 == <<"Request failed: ">> \o r.text
        m1 == IF operation # <<>> THEN m0 \o <<"\nOperation: ">> \o operation ELSE m0
    IN  m1 \o ConnectionHint(self)

\* the except requests.exceptions.RequestException branch
NetworkErrorMessage(self, r, operation) ==
    LET m0 == <<"Request failed: ">> \o r.text
        m1 == IF operation # <<>> THEN m0 \o <<"\nOperation: ">> \o operation ELSE m0
    IN  IF Contains(r.text, <<ConnectionRefused>>)
        THEN m1 \o ConnectionHint(self)
        ELSE m1

\* _safe_call(f, operation, context), f having got the answer r to its
\* request and returning value when the status does not raise.  None and
\* the empty string (operation), None and the empty dict (context) are <<>>.
_safe_call(self, r, value, operation, context) ==
    IF r.kind = "net"
    THEN Raise("Exception", NetworkErrorMessage(self, r, operation))
    ELSE IF RaisesForStatus(r)
         THEN Raise("Exception", HttpErrorMessage(r, operation, context))
         ELSE Return(value)

-----------------------------------------------------------------------------
(* The REST methods of Obsidian: one request each *)

VaultUrl(self, path) == get_base_url(self) \o <<"/vault/">> \o path

list_files_in_vault(self, r) ==
    Run(<<Http(self, "GET", get_base_url(self) \o <<"/vault/">>, _get_headers(self),
               <<>>, <<>>)>>,
        <<r>>,
        _safe_call(self, r, r.json["files"], <<"list_files_in_vault">>, <<>>))

list_files_in_dir(self, dirpath0, r) ==
    LET dirpath == _normalize_path(dirpath0)
    IN  Run(<<Http(self, "GET", VaultUrl(self, dirpath) \o <<"/">>, _get_headers(self),
                   <<>>, <<>>)>>,
            <<r>>,
            _safe_call(self, r, r.json["files"], <<"list_files_in_dir">>,
                       << <<"dirpath", dirpath>> >>))

\* a read that passes neither operation nor context to _safe_call
get_file_contents_no_context(self, filepath0, r) ==
    LET filepath == _normalize_path(filepath0)
    IN  Run(<<Http(self, "GET", VaultUrl(self, filepath), _get_headers(self),
                   <<>>, <<>>)>>,
            <<r>>,
            _safe_call(self, r, r.text, <<>>, <<>>))

get_file_contents(self, filepath0, r) ==
    LET filepath == _normalize_path(filepath0)
    IN  Run(<<Http(self, "GET", VaultUrl(self, filepath), _get_headers(self),
                   <<>>, <<>>)>>,
            <<r>>,
            _safe_call(self, r, r.text, <<"get_file_contents">>,
                       << <<"filepath", filepath>> >>))

\* a search that posts to the vault path
search_on_vault(self, query, context_length, r) ==
    Run(<<Http(self, "POST", VaultUrl(self, <<>>), _get_headers(self),
               [query |-> query, contextLength |-> context_length], <<>>)>>,
        <<r>>,
        _safe_call(self, r, r.json, <<"search">>,
                   << <<"query", query>>, <<"context_length", StrVal(context_length)>> >>))

search(self, query, context_length, r) ==
    Run(<<Http(self, "POST", get_base_url(self) \o <<"/search/simple/">>,
               _get_headers(self),
               [query |-> query, contextLength |-> context_length], <<>>)>>,
        <<r>>,
        _safe_call(self, r, r.json, <<"search">>,
                   << <<"query", query>>, <<"context_length", StrVal(context_length)>> >>))

append_content(self, filepath0, content, r) ==
    LET filepath == _normalize_path(filepath0)
    IN  Run(<<Http(self, "POST", VaultUrl(self, filepath),
                   Merge(_get_headers(self), [x \in {"Content-Type"} |-> <<"text/markdown">>]),
                   <<>>, content)>>,
            <<r>>,
            _safe_call(self, r, <<>>, <<"append_content">>,
                       << <<"filepath", filepath>> >>))

valid_operations == {<<"append">>, <<"prepend">>, <<"replace">>}

valid_target_types == {<<"heading">>, <<"block">>, <<"frontmatter">>}

\* a validation that checks the operation only
PatchArgumentErrorOperationOnly(operation, target_type, target) ==
    IF operation \notin valid_operations
    THEN <<"Operation must be one of: append, prepend, replace">>
    ELSE <<>>

\* the ValueError message of patch_content's validation, <<>> when the
\* arguments pass
PatchArgumentError(operation, target_type, target) ==
    IF operation \notin valid_operations
    THEN <<"Operation must be one of: append, prepend, replace">>
    ELSE IF target_type \notin valid_target_types
         THEN <<"Target type must be one of: heading, block, frontmatter">>
         ELSE IF target = <<>>
              THEN <<"Target cannot be empty">>
              ELSE <<>>

\* headers that ask for trimming whatever trim_whitespace is
PatchHeadersAlwaysTrim(self, operation, target_type, target, create_if_missing, trim_whitespace) ==
    LET h0 == Merge(_get_headers(self),
                    [x \in {"Content-Type", "Operation", "Target-Type", "Target",
                            "Trim-Target-Whitespace"} |->
                        CASE x = "Content-Type" -> <<"text/markdown">>
                          [] x = "Operation" -> operation
                          [] x = "Target-Type" -> target_type
                          [] x = "Target" -> Quote(target)
                          [] x = "Trim-Target-Whitespace" -> <<"true">>])
    IN  IF create_if_missing
        THEN Merge(h0, [x \in {"Create-Target-If-Missing"} |-> <<"true">>])
        ELSE h0

PatchHeaders(self, operation, target_type, target, create_if_missing, trim_whitespace) ==
    LET h0 == Merge(_get_headers(self),
                    [x \in {"Content-Type", "Operation", "Target-Type", "Target"} |->
                        CASE x = "Content-Type" -> <<"text/markdown">>
                          [] x = "Operation" -> operation
                          [] x = "Target-Type" -> target_type
                          [] x = "Target" -> Quote(target)])
        h1 == IF create_if_missing
              THEN Merge(h0, [x \in {"Create-Target-If-Missing"} |-> <<"true">>])
              ELSE h0
    IN  IF trim_whitespace
        THEN Merge(h1, [x \in {"Trim-Target-Whitespace"} |-> <<"true">>])
        ELSE h1

\* patch_content: r is the answer to the PATCH request, unused when the
\* validation raises
patch_content(self, filepath0, operation, target_type, target, content, create_if_missing, trim_whitespace, r) ==
    IF PatchArgumentError(operation, target_type, target) # <<>>
    THEN Run(<<>>, <<>>,
             Raise("ValueError", PatchArgumentError(operation, target_type, target)))
    ELSE LET filepath == _normalize_path(filepath0)
         IN  Run(<<Http(self, "PATCH", VaultUrl(self, filepath),
                        PatchHeaders(self, operation, target_type, target,
                                     create_if_missing, trim_whitespace),
                        <<>>, content)>>,
                 <<r>>,
                 _safe_call(self, r, <<>>, <<"patch_content">>,
                            << <<"filepath", filepath>>,
                               <<"operation", operation>>,
                               <<"target_type", target_type>>,
                               <<"target", target>>,
                               <<"create_if_missing", StrBool(create_if_missing)>>,
                               <<"trim_whitespace", StrBool(trim_whitespace)>> >>))

delete_file(self, filepath0, r) ==
    LET filepath == _normalize_path(filepath0)
    IN  Run(<<Http(self, "DELETE", VaultUrl(self, filepath), _get_headers(self),
                   <<>>, <<>>)>>,
            <<r>>,
            _safe_call(self, r, <<>>, <<"delete_file">>,
                       << <<"filepath", filepath>> >>))

search_json(self, query, r) ==
    Run(<<Http(self, "POST", get_base_url(self) \o <<"/search/">>,
               Merge(_get_headers(self),
                     [x \in {"Content-Type"} |-> <<"application/vnd.olrapi.jsonlogic+json">>]),
               <<>>, query)>>,
        <<r>>,
        _safe_call(self, r, r.json, <<"search_json">>,
                   << <<"query", <<"{">> \o query \o <<"}">>>> >>))

\* get_periodic_note passes neither operation nor context to _safe_call
get_periodic_note(self, period, r) ==
    Run(<<Http(self, "GET", get_base_url(self) \o <<"/periodic/">> \o period \o <<"/">>,
               _get_headers(self), <<>>, <<>>)>>,
        <<r>>,
        _safe_call(self, r, r.text, <<>>, <<>>))

\* get_recent_periodic_notes passes neither operation nor context either
get_recent_periodic_notes(self, period, limit, include_content, r) ==
    Run(<<Http(self, "GET",
               get_base_url(self) \o <<"/periodic/">> \o period \o <<"/recent">>,
               _get_headers(self),
               [limit |-> limit, includeContent |-> include_content], <<>>)>>,
        <<r>>,
        _safe_call(self, r, r.json, <<>>, <<>>))

\* the Dataview query of get_recent_changes
DqlQuery(limit, days) ==
    Join(<<"\n">>,
         << <<"TABLE file.mtime">>,
            <<"WHERE file.mtime >= date(today) - dur(">> \o StrVal(days) \o <<" days)">>,
            <<"SORT file.mtime DESC">>,
            <<"LIMIT ">> \o StrVal(limit) >>)

get_recent_changes(self, limit, days, r) ==
    Run(<<Http(self, "POST", get_base_url(self) \o <<"/search/">>,
               Merge(_get_headers(self),
                     [x \in {"Content-Type"} |-> <<"application/vnd.olrapi.dataview.dql+txt">>]),
               <<>>, DqlQuery(limit, days))>>,
        <<r>>,
        _safe_call(self, r, r.json, <<"get_recent_changes">>,
                   << <<"limit", StrVal(limit)>>, <<"days", StrVal(days)>> >>))

-----------------------------------------------------------------------------
(* Obsidian.get_batch_file_contents *)

BlockEnd == "\n\n---\n\n"

\* one turn of the loop: the block appended for filepath, its read having
\* ended as out
BatchBlock(filepath, out) ==
    IF out.kind = "return"
    THEN <<"# ">> \o filepath \o <<"\n\n">> \o out.value \o <<BlockEnd>>
    ELSE <<"# ">> \o filepath \o <<"\n\nError reading file: ">> \o out.value
            \o <<BlockEnd>>

\* the loop without its try/except: the first failing read ends the batch
RECURSIVE BatchLoopNoCatch(_, _, _, _)
BatchLoopNoCatch(self, filepaths, rs, acc) ==
    IF filepaths = <<>> THEN Run(acc.reqs, acc.resps, Return(Join(<<>>, acc.result)))
    ELSE LET run == get_file_contents(self, Head(filepaths), Head(rs))
         IN  IF run.out.kind = "raise"
             THEN Run(acc.reqs \o run.reqs, acc.resps \o run.resps, run.out)
             ELSE BatchLoopNoCatch(self, Tail(filepaths), Tail(rs),
                      [reqs |-> acc.reqs \o run.reqs,
                       resps |-> acc.resps \o run.resps,
                       result |-> Append(acc.result,
                                         BatchBlock(Head(filepaths), run.out))])

get_batch_file_contents_no_catch(self, filepaths, rs) ==
    BatchLoopNoCatch(self, filepaths, rs, [reqs |-> <<>>, resps |-> <<>>, result |-> <<>>])

\* for filepath in filepaths: try ... except Exception ...
RECURSIVE BatchLoop(_, _, _, _)
BatchLoop(self, filepaths, rs, acc) ==
    IF filepaths = <<>> THEN acc
    ELSE LET run == get_file_contents(self, Head(filepaths), Head(rs))
         IN  BatchLoop(self, Tail(filepaths), Tail(rs),
                       [reqs |-> acc.reqs \o run.reqs,
                        resps |-> acc.resps \o run.resps,
                        result |-> Append(acc.result,
                                          BatchBlock(Head(filepaths), run.out))])

\* rs[i] is the answer to the read of filepaths[i]
get_batch_file_contents(self, filepaths, rs) ==
    LET done == BatchLoop(self, filepaths, rs,
                          [reqs |-> <<>>, resps |-> <<>>, result |-> <<>>])
    IN  Run(done.reqs, done.resps, Return(Join(<<>>, done.result)))

-----------------------------------------------------------------------------
(* Obsidian.add_tag *)

\* the loop of add_tag over content.split('\n'): the stripped line that
\* starts with 'tags:' between two '---' lines, <<>> (None) when none
RECURSIVE FindTagsLine(_, _)
FindTagsLine(lines, in_frontmatter) ==
    IF lines = <<>> THEN <<>>
    ELSE IF StripChars(Head(lines), Whitespace) = <<"-", "-", "-">>
         THEN FindTagsLine(Tail(lines), ~in_frontmatter)
         ELSE IF in_frontmatter /\ StartsWith(StripChars(Head(lines), Whitespace), <<"tags:">>)
              THEN StripChars(Head(lines), Whitespace)
              ELSE FindTagsLine(Tail(lines), in_frontmatter)

\* the try block of add_tag: the read of the file, then the append to the
\* tags field when the file has a tags line and the replace when not
tag_tried(self, filepath, tag, read, rWrite) ==
    IF read.out.kind = "raise" THEN read
    ELSE Only({Run(read.reqs \o patch.reqs, read.resps \o patch.resps, patch.out) :
               patch \in {IF FindTagsLine(SplitOn(read.out.value, "\n"), FALSE) # <<>>
                          THEN patch_content(self, filepath, <<"append">>, <<"frontmatter">>,
                                             <<"tags">>, <<", ">> \o tag, TRUE, FALSE, rWrite)
                          ELSE patch_content(self, filepath, <<"replace">>, <<"frontmatter">>,
                                             <<"tags">>, <<"[">> \o tag \o <<"]">>,
                                             TRUE, FALSE, rWrite)}})

\* rRead answers the GET, rWrite the PATCH of the try block, rReplace the
\* PATCH of the except block, which runs when anything in the try block raised
add_tag(self, filepath, tag, rRead, rWrite, rReplace) ==
    Only({IF tried.out.kind = "raise"
          THEN Only({Run(tried.reqs \o patch.reqs, tried.resps \o patch.resps, patch.out) :
                     patch \in {patch_content(self, filepath, <<"replace">>,
                                              <<"frontmatter">>, <<"tags">>,
                                              <<"[">> \o LStrip(tag, {"#"}) \o <<"]">>,
                                              TRUE, FALSE, rReplace)}})
          ELSE tried :
          tried \in {tag_tried(self, filepath, LStrip(tag, {"#"}),
                               get_file_contents(self, filepath, rRead), rWrite)}})

-----------------------------------------------------------------------------
(* Obsidian.create_or_update_note *)

\* the PUT of create_or_update_note through _safe_call; action is
\* "overwrite" in the try block and "create" in the except block
put_note(self, filepath, content, action, r) ==
    Run(<<Http(self, "PUT", VaultUrl(self, filepath),
               Merge(_get_headers(self), [x \in {"Content-Type"} |-> <<"text/markdown">>]),
               <<>>, content)>>,
        <<r>>,
        _safe_call(self, r, <<>>, <<"create_or_update_note">>,
                   << <<"filepath", filepath>>, <<"action", action>> >>))

\* the try block: the read of the file, then the PUT when overwrite is set
\* and append_content when it is not; whatever raises leaves the block
note_tried(self, filepath, content, overwrite, read, rWrite) ==
    IF read.out.kind = "raise" THEN read
    ELSE Only({Run(read.reqs \o write.reqs, read.resps \o write.resps, write.out) :
               write \in {IF overwrite
                          THEN put_note(self, filepath, content, <<"overwrite">>, rWrite)
                          ELSE append_content(self, filepath, content, rWrite)}})

\* rRead answers the GET, rWrite the PUT or POST of the try block, rPut the
\* PUT of the except block, which runs when anything in the try block raised
create_or_update_note(self, filepath0, content, overwrite, rRead, rWrite, rPut) ==
    Only({IF tried.out.kind = "raise"
          THEN Only({Run(tried.reqs \o put.reqs, tried.resps \o put.resps, put.out) :
                     put \in {put_note(self, _normalize_path(filepath0), content,
                                       <<"create">>, rPut)}})
          ELSE tried :
          tried \in {note_tried(self, _normalize_path(filepath0), content, overwrite,
                                get_file_contents(self, _normalize_path(filepath0), rRead),
                                rWrite)}})

-----------------------------------------------------------------------------
(* Obsidian.find_headings *)

Hash == "#"

Newline == "\n"

\* the number of '#' characters a stripped line begins with
RECURSIVE LeadingHashes(_)
LeadingHashes(s) ==
    IF s # <<>> /\ Head(s) = Hash THEN 1 + LeadingHashes(Tail(s)) ELSE 0

\* line.strip().startswith('#') and ' ' in line.strip()
IsHeadingLine(line) ==
    LET stripped == StripChars(line, Whitespace)
    IN  StartsWith(stripped, <<Hash>>) /\ Contains(stripped, <<Space>>)

\* line.strip().split(' ', 1)[1].strip()
HeadingText(line) ==
    LET stripped == StripChars(line, Whitespace)
        k == CHOOSE i \in DOMAIN stripped :
                 stripped[i] = Space /\ \A j \in 1..(i - 1) : stripped[j] # Space
    IN  StripChars(SubSeq(stripped, k + 1, Len(stripped)), Whitespace)

\* a path that takes the nearest earlier heading of the same or a smaller level
HeadingPathNotDeeper(headings, level, text) ==
    LET above == {i \in DOMAIN headings : headings[i].level <= level}
    IN  IF above = {} THEN text
        ELSE LET nearest == CHOOSE i \in above : \A j \in above : j <= i
             IN  Join(<<":", ":">>, <<headings[nearest].text, text>>)

\* for h in reversed(headings): if h['level'] < level: insert its text, break
HeadingPath(headings, level, text) ==
    LET above == {i \in DOMAIN headings : headings[i].level < level}
    IN  IF above = {} THEN text
        ELSE LET nearest == CHOOSE i \in above : \A j \in above : j <= i
             IN  Join(<<":", ":">>, <<headings[nearest].text, text>>)

\* the loop over content.split('\n')
RECURSIVE ScanLines(_, _)
ScanLines(lines, headings) ==
    IF lines = <<>> THEN headings
    ELSE IF IsHeadingLine(Head(lines))
         THEN LET level == LeadingHashes(StripChars(Head(lines), Whitespace))
                  text == HeadingText(Head(lines))
              IN  ScanLines(Tail(lines),
                            Append(headings,
                                   [level |-> level, text |-> text,
                                    path |-> HeadingPath(headings, level, text)]))
         ELSE ScanLines(Tail(lines), headings)

HeadingsOf(content) == ScanLines(SplitOn(content, Newline), <<>>)

\* a lookup that reads the file again after a failed read
find_headings_retry(self, filepath, r) ==
    Only({IF run.out.kind = "return"
          THEN Run(run.reqs, run.resps, Return(HeadingsOf(run.out.value)))
          ELSE Run(run.reqs \o run.reqs, run.resps \o run.resps, Return(<<>>)) :
          run \in {get_file_contents(self, filepath, r)}})

\* a lookup that lets the error of its read through
find_headings_raising(self, filepath, r) ==
    Only({IF run.out.kind = "return"
          THEN Run(run.reqs, run.resps, Return(HeadingsOf(run.out.value)))
          ELSE run :
          run \in {get_file_contents(self, filepath, r)}})

\* find_headings: the headings of the file, [] when the read raised
find_headings(self, filepath, r) ==
    Only({IF run.out.kind = "return"
          THEN Run(run.reqs, run.resps, Return(HeadingsOf(run.out.value)))
          ELSE Run(run.reqs, run.resps, Return(<<>>)) :
          run \in {get_file_contents(self, filepath, r)}})

-----------------------------------------------------------------------------
(* Obsidian.try_patch_content *)

\* a try_patch_content that reports the primary's error even when the
\* fallback was attempted
try_patch_content_first_error(primary, fallback_operation, fallback) ==
    IF primary.out.kind = "return"
    THEN Run(primary.reqs, primary.resps, Return([success |-> TRUE, message |-> <<>>]))
    ELSE IF fallback_operation # <<>>
         THEN Run(primary.reqs \o fallback.reqs, primary.resps \o fallback.resps,
                  Return(IF fallback.out.kind = "return"
                         THEN [success |-> TRUE, message |-> <<>>]
                         ELSE [success |-> FALSE, message |-> primary.out.value]))
         ELSE Run(primary.reqs, primary.resps,
                  Return([success |-> FALSE, message |-> primary.out.value]))

\* the try/except of try_patch_content over the runs of its two
\* patch_content calls; the tuple (success, error_message) is a record and
\* None is <<>>.  fallback_operation <<>> stands for None and for '', which
\* `if fallback_operation` treats alike
try_patch_content_over(primary, fallback_operation, fallback) ==
    IF primary.out.kind = "return"
    THEN Run(primary.reqs, primary.resps, Return([success |-> TRUE, message |-> <<>>]))
    ELSE IF fallback_operation # <<>>
         THEN Run(primary.reqs \o fallback.reqs, primary.resps \o fallback.resps,
                  Return(IF fallback.out.kind = "return"
                         THEN [success |-> TRUE, message |-> <<>>]
                         ELSE [success |-> FALSE, message |-> fallback.out.value]))
         ELSE Run(primary.reqs, primary.resps,
                  Return([success |-> FALSE, message |-> primary.out.value]))

\* r answers the primary PATCH, rFallback the fallback's
try_patch_content(self, filepath, operation, target_type, target, content, fallback_operation, r, rFallback) ==
    Only({try_patch_content_over(primary, fallback_operation, fallback) :
          primary \in {patch_content(self, filepath, operation, target_type, target,
                                     content, FALSE, FALSE, r)},
          fallback \in {patch_content(self, filepath, fallback_operation, target_type,
                                      target, content, FALSE, FALSE, rFallback)}})

-----------------------------------------------------------------------------
(* Tool handlers (tools.py): run_tool of each handler.  args is the dict of *)
(* the invocation, a function from the keys given to their values.          *)

\* args.get(key, default)
Get(args, key, default) == IF key \in DOMAIN args THEN args[key] ELSE default

\* inputSchema["required"] of the tool of that name
required(name) ==
    CASE name = "obsidian_list_files_in_dir" -> {"dirpath"}
      [] name = "obsidian_get_file_contents" -> {"filepath"}
      [] name = "obsidian_simple_search" -> {"query"}
      [] name = "obsidian_append_content" -> {"filepath", "content"}
      [] name = "obsidian_patch_content" ->
             {"filepath", "operation", "target_type", "target", "content"}
      [] name = "obsidian_delete_file" -> {"filepath", "confirm"}
      [] name = "obsidian_complex_search" -> {"query"}
      [] name = "obsidian_batch_get_file_contents" -> {"filepaths"}
      [] name = "obsidian_get_periodic_note" -> {"period"}
      [] name = "obsidian_get_recent_periodic_notes" -> {"period"}
      [] name = "obsidian_add_to_heading" -> {"filepath", "heading", "content"}
      [] OTHER -> {}

\* TextContent(type="text", text=...), the one element of the list returned
TextContent(text) == [type |-> "text", text |-> text]

\* json.dumps(value, indent=2)
JsonDumps(value) == [dumps |-> value]

Rejected(message) == Run(<<>>, <<>>, Raise("RuntimeError", message))

\* the handler returns block when the client call returned and lets the
\* client's exception through when it raised
Through(run, block) ==
    IF run.out.kind = "return"
    THEN Run(run.reqs, run.resps, Return(TextContent(block)))
    ELSE run

ListFilesInVaultTool(cfg, args, r) ==
    LET run == list_files_in_vault(Obsidian(cfg), r)
    IN  Through(run, JsonDumps(run.out.value))

ListFilesInDirTool(cfg, args, r) ==
    IF "dirpath" \notin DOMAIN args
    THEN Rejected(<<"dirpath argument missing in arguments">>)
    ELSE LET run == list_files_in_dir(Obsidian(cfg), args["dirpath"], r)
         IN  Through(run, JsonDumps(run.out.value))

GetFileContentsTool(cfg, args, r) ==
    IF "filepath" \notin DOMAIN args
    THEN Rejected(<<"filepath argument missing in arguments">>)
    ELSE LET run == get_file_contents(Obsidian(cfg), args["filepath"], r)
         IN  Through(run, JsonDumps(run.out.value))

\* the filename, score and matches of every result
FormatResults(results) == [formatted |-> results]

SearchTool(cfg, args, r) ==
    IF "query" \notin DOMAIN args
    THEN Rejected(<<"query argument missing in arguments">>)
    ELSE LET run == search(Obsidian(cfg), args["query"],
                           Get(args, "context_length", IntVal(100)), r)
         IN  Through(run, JsonDumps(FormatResults(run.out.value)))

\* a handler that requires the content only
AppendContentToolContentOnly(cfg, args, r) ==
    IF "content" \notin DOMAIN args
    THEN Rejected(<<"filepath and content arguments required">>)
    ELSE LET run == append_content(Obsidian(cfg), Get(args, "filepath", <<>>),
                                   args["content"], r)
         IN  Through(run, <<"Successfully appended content to ">>
                              \o Get(args, "filepath", <<>>))

AppendContentTool(cfg, args, r) ==
    IF "filepath" \notin DOMAIN args \/ "content" \notin DOMAIN args
    THEN Rejected(<<"filepath and content arguments required">>)
    ELSE LET run == append_content(Obsidian(cfg), Get(args, "filepath", <<>>),
                                   args["content"], r)
         IN  Through(run, <<"Successfully appended content to ">> \o args["filepath"])

\* the paths of the headings on which Test holds, in document order
RECURSIVE PathsWhere(_, _, _)
PathsWhere(headings, target, exact) ==
    IF headings = <<>> THEN <<>>
    ELSE LET p == Head(headings).path
             hit == IF exact THEN p = target
                    ELSE Contains(p, target) \/ Contains(target, p)
         IN  (IF hit THEN <<p>> ELSE <<>>) \o PathsWhere(Tail(headings), target, exact)

Has404 == <<"4", "0", "4">>

Has400 == <<"4", "0", "0">>

\* the except branch of PatchContentToolHandler.run_tool
PatchToolError(message, args) ==
    IF Contains(message, Has404) /\ Get(args, "target_type", <<>>) = <<"heading">>
    THEN message \o <<"\n\nSuggestion: Check that the heading exists exactly as specified. You can use trim_whitespace=true to ignore whitespace differences, or create_if_missing=true to create the heading if it doesn't exist.">>
    ELSE IF Contains(message, Has400)
         THEN message \o <<"\n\nSuggestion: Verify that your operation, target_type, and target values are valid. Heading paths should use :: as delimiters between levels.">>
         ELSE message

SimilarSuggestion(target_heading, similar_headings, trim_whitespace) ==
    <<"No exact match for heading '">> \o target_heading
        \o <<"'. Similar headings: ">> \o Join(<<", ">>, similar_headings)
        \o (IF trim_whitespace
            THEN <<". Target already has trim_whitespace=true.">>
            ELSE <<". Consider using trim_whitespace=true or check exact heading path.">>)

\* a handler that reports success whatever patch_content did
PatchContentDoneUnchecked(args, lookup, patch) ==
    Run(lookup.reqs \o patch.reqs, lookup.resps \o patch.resps,
        Return(TextContent(<<"Successfully patched content in ">>
                              \o args["filepath"])))

\* what PatchContentToolHandler.run_tool does once patch_content has run
PatchContentDone(args, lookup, patch) ==
    IF patch.out.kind = "return"
    THEN Run(lookup.reqs \o patch.reqs, lookup.resps \o patch.resps,
             Return(TextContent(<<"Successfully patched content in ">>
                                   \o args["filepath"])))
    ELSE Run(lookup.reqs \o patch.reqs, lookup.resps \o patch.resps,
             Raise("RuntimeError", PatchToolError(patch.out.value, args)))

\* what it does once the headings are looked up: the suggestion, or the patch
PatchContentLookedUp(cfg, args, lookup, rWrite) ==
    LET create_if_missing == Get(args, "create_if_missing", FALSE)
        trim_whitespace == Get(args, "trim_whitespace", FALSE)
        headings == lookup.out.value
        matching_headings == PathsWhere(headings, args["target"], TRUE)
        similar_headings == PathsWhere(headings, args["target"], FALSE)
    IN  IF /\ headings # <<>>
           /\ matching_headings = <<>>
           /\ ~create_if_missing
           /\ similar_headings # <<>>
        THEN Run(lookup.reqs, lookup.resps,
                 Return(TextContent(SimilarSuggestion(args["target"], similar_headings,
                                                      trim_whitespace))))
        ELSE Only({PatchContentDone(args, lookup, patch) :
                   patch \in {patch_content(Obsidian(cfg), args["filepath"],
                                            args["operation"], args["target_type"],
                                            args["target"], args["content"],
                                            create_if_missing, trim_whitespace,
                                            rWrite)}})

\* rRead answers the read of find_headings, rWrite the PATCH
PatchContentTool(cfg, args, rRead, rWrite) ==
    IF ~({"filepath", "operation", "target_type", "target", "content"} \subseteq DOMAIN args)
    THEN Rejected(<<"filepath, operation, target_type, target and content arguments required">>)
    ELSE Only({PatchContentLookedUp(cfg, args, lookup, rWrite) :
               lookup \in {IF args["target_type"] = <<"heading">>
                           THEN find_headings(Obsidian(cfg), args["filepath"], rRead)
                           ELSE Run(<<>>, <<>>, Return(<<>>))}})

DeleteFileTool(cfg, args, r) ==
    IF "filepath" \notin DOMAIN args
    THEN Rejected(<<"filepath argument missing in arguments">>)
    ELSE IF ~Truthy(Get(args, "confirm", BoolVal(FALSE)))
         THEN Rejected(<<"confirm must be set to true to delete a file">>)
         ELSE LET run == delete_file(Obsidian(cfg), args["filepath"], r)
              IN  Through(run, <<"Successfully deleted ">> \o args["filepath"])

ComplexSearchTool(cfg, args, r) ==
    IF "query" \notin DOMAIN args
    THEN Rejected(<<"query argument missing in arguments">>)
    ELSE LET run == search_json(Obsidian(cfg), Get(args, "query", <<>>), r)
         IN  Through(run, JsonDumps(run.out.value))

BatchGetFileContentsTool(cfg, args, rs) ==
    IF "filepaths" \notin DOMAIN args
    THEN Rejected(<<"filepaths argument missing in arguments">>)
    ELSE LET run == get_batch_file_contents(Obsidian(cfg), args["filepaths"], rs)
         IN  Through(run, run.out.value)

valid_periods ==
    {<<"daily">>, <<"weekly">>, <<"monthly">>, <<"quarterly">>, <<"yearly">>}

InvalidPeriod(period) ==
    <<"Invalid period: ">> \o period
        \o <<". Must be one of: daily, weekly, monthly, quarterly, yearly">>

PeriodicNotesTool(cfg, args, r) ==
    IF "period" \notin DOMAIN args
    THEN Rejected(<<"period argument missing in arguments">>)
    ELSE IF args["period"] \notin valid_periods
         THEN Rejected(InvalidPeriod(args["period"]))
         ELSE LET run == get_periodic_note(Obsidian(cfg), args["period"], r)
              IN  Through(run, run.out.value)

\* not isinstance(x, int) or x < 1
NotPositiveInt(x) == x.type \notin {"int", "bool"} \/ x.val < 1

RecentPeriodicNotesTool(cfg, args, r) ==
    IF "period" \notin DOMAIN args
    THEN Rejected(<<"period argument missing in arguments">>)
    ELSE IF args["period"] \notin valid_periods
         THEN Rejected(InvalidPeriod(args["period"]))
         ELSE LET limit == Get(args, "limit", IntVal(5))
                  include_content == Get(args, "include_content", BoolVal(FALSE))
              IN  IF NotPositiveInt(limit)
                  THEN Rejected(<<"Invalid limit: ">> \o StrVal(limit)
                                          \o <<". Must be a positive integer">>)
                  ELSE IF include_content.type # "bool"
                       THEN Rejected(<<"Invalid include_content: ">>
                                               \o StrVal(include_content)
                                               \o <<". Must be a boolean">>)
                       ELSE LET run == get_recent_periodic_notes(
                                           Obsidian(cfg), args["period"], limit,
                                           include_content, r)
                            IN  Through(run, JsonDumps(run.out.value))

RecentChangesTool(cfg, args, r) ==
    LET limit == Get(args, "limit", IntVal(10))
        days == Get(args, "days", IntVal(90))
    IN  IF NotPositiveInt(limit)
        THEN Rejected(<<"Invalid limit: ">> \o StrVal(limit)
                                \o <<". Must be a positive integer">>)
        ELSE IF NotPositiveInt(days)
             THEN Rejected(<<"Invalid days: ">> \o StrVal(days)
                                     \o <<". Must be a positive integer">>)
             ELSE LET run == get_recent_changes(Obsidian(cfg), limit, days, r)
                  IN  Through(run, JsonDumps(run.out.value))

\* "\n".join([f"Level {h['level']}: {h['text']} (path: {h['path']})" ...])
HeadingList(headings) ==
    Join(<<Newline>>,
         [i \in DOMAIN headings |->
             <<"Level ">> \o Str(headings[i].level) \o <<": ">> \o headings[i].text
                 \o <<" (path: ">> \o headings[i].path \o <<")">>])

\* the loop of AddToHeadingToolHandler.run_tool over the headings: it stops
\* at the first exact match and collects the similar paths met before it
RECURSIVE MatchHeadings(_, _, _, _)
MatchHeadings(headings, heading, trim_whitespace, similar_matches) ==
    IF headings = <<>> THEN [exact_match |-> <<>>, similar_matches |-> similar_matches]
    ELSE LET p == Head(headings).path
         IN  IF p = heading
             THEN [exact_match |-> p, similar_matches |-> similar_matches]
             ELSE IF \/ Contains(p, heading)
                     \/ /\ trim_whitespace
                        /\ Contains(StripChars(p, Whitespace),
                                    StripChars(heading, Whitespace))
                  THEN MatchHeadings(Tail(headings), heading, trim_whitespace,
                                     Append(similar_matches, p))
                  ELSE MatchHeadings(Tail(headings), heading, trim_whitespace,
                                     similar_matches)

\* the except branch of AddToHeadingToolHandler.run_tool
AddToHeadingError(message, headings, filepath) ==
    IF headings # <<>> /\ Contains(message, Has404)
    THEN message \o <<"\n\nAvailable headings in ">> \o filepath \o <<":\n">>
            \o Join(<<Newline>>, [i \in DOMAIN headings |-> <<"- ">> \o headings[i].path])
            \o <<"\n\nTry using one of these heading paths or set create_if_missing=true to create a new heading.">>
    ELSE message

\* a listing that raises when there is nothing to list
AddToHeadingListedOrRaising(filepath, lookup) ==
    IF lookup.out.value # <<>>
    THEN Run(lookup.reqs, lookup.resps,
             Return(TextContent(<<"Headings in ">> \o filepath \o <<":\n\n">>
                                   \o HeadingList(lookup.out.value))))
    ELSE Run(lookup.reqs, lookup.resps,
             Raise("RuntimeError", <<"No headings found in ">> \o filepath \o <<".">>))

\* the branch on list_headings
AddToHeadingListed(filepath, lookup) ==
    LET headings == lookup.out.value
    IN  Run(lookup.reqs, lookup.resps,
            Return(TextContent(
                IF lookup.out.kind = "raise"
                THEN <<"Error getting headings: ">> \o lookup.out.value
                ELSE IF headings # <<>>
                THEN <<"Headings in ">> \o filepath \o <<":\n\n">>
                        \o HeadingList(headings)
                        \o <<"\n\nUse one of these paths with the 'heading' parameter to target a specific section.">>
                ELSE <<"No headings found in ">> \o filepath \o <<".">>)))

\* a choice that prefers the first similar match to the exact one
AddToHeadingTargetSimilarFirst(heading, trim_whitespace, found) ==
    IF found.similar_matches # <<>> /\ trim_whitespace
    THEN found.similar_matches[1]
    ELSE IF found.exact_match # <<>> THEN found.exact_match ELSE heading

\* exact_match, else the first similar match under trim_whitespace, else
\* the heading as given
AddToHeadingTarget(heading, trim_whitespace, found) ==
    IF found.exact_match # <<>> THEN found.exact_match
    ELSE IF found.similar_matches # <<>> /\ trim_whitespace
         THEN found.similar_matches[1]
         ELSE heading

\* what AddToHeadingToolHandler.run_tool does once patch_content has run
AddToHeadingDone(filepath, lookup, target, patch) ==
    IF patch.out.kind = "return"
    THEN Run(lookup.reqs \o patch.reqs, lookup.resps \o patch.resps,
             Return(TextContent(<<"Successfully added content to heading '">>
                                   \o target \o <<"' in ">> \o filepath)))
    ELSE Run(lookup.reqs \o patch.reqs, lookup.resps \o patch.resps,
             Raise("RuntimeError",
                   AddToHeadingError(patch.out.value, lookup.out.value, filepath)))

\* what it does once the headings are looked up and the target is chosen
AddToHeadingLookedUp(cfg, args, lookup, target, rWrite) ==
    LET position == Get(args, "position", <<"end">>)
        operation == IF position = <<"end">> THEN <<"append">> ELSE <<"prepend">>
    IN  Only({AddToHeadingDone(args["filepath"], lookup, target, patch) :
              patch \in {patch_content(Obsidian(cfg), args["filepath"], operation,
                                       <<"heading">>, target, args["content"],
                                       Get(args, "create_if_missing", FALSE),
                                       Get(args, "trim_whitespace", TRUE), rWrite)}})

\* rRead answers the read of find_headings, rWrite the PATCH
AddToHeadingTool(cfg, args, rRead, rWrite) ==
    IF ~({"filepath", "heading", "content"} \subseteq DOMAIN args)
    THEN Rejected(<<"filepath, heading, and content arguments required">>)
    ELSE Only({IF Get(args, "list_headings", FALSE)
               THEN AddToHeadingListed(args["filepath"], lookup)
               ELSE Only({AddToHeadingLookedUp(cfg, args, lookup, target, rWrite) :
                          target \in {AddToHeadingTarget(
                                          args["heading"],
                                          Get(args, "trim_whitespace", TRUE),
                                          MatchHeadings(lookup.out.value, args["heading"],
                                                        Get(args, "trim_whitespace", TRUE),
                                                        <<>>))}}) :
               lookup \in {find_headings(Obsidian(cfg), args["filepath"], rRead)}})

-----------------------------------------------------------------------------
(* Inputs *)

\* paths as callers write them: empty, plain, with outer slash and space,
\* with a backslash
FilePaths == {<<>>, <<"a">>, <<Slash, "a", Space>>, <<"a", Backslash, "a">>}

\* file contents the server may return
Docs ==
    {<<>>,
     <<"#", " ", "A", "\n", "#", "#", " ", "B", "\n", "#", " ", "C">>,
     <<"t", "\n", "#", "t", " ", "x">>}

\* lines of a note: headings of three levels, a tag line, plain text, a
\* heading with outer whitespace, a lone marker
HeadingLines ==
    {<<"#", " ", "A">>, <<"#", "#", " ", "B">>, <<"#", "#", "#", " ", "C">>,
     <<"#", "t", " ", "x">>, <<"t">>, <<" ", "#", " ", "A", " ">>, <<"#">>}

\* content given to the writing methods (it is the request body and
\* nothing else reads it)
Contents == {<<"x">>}

FileAnswers == {Ok(<<>>, d) : d \in Docs} \cup Failures

ListAnswers == {Ok([files |-> <<"a", "b/">>], <<>>)} \cup Failures

JsonAnswers == {Ok([results |-> <<"hit">>], <<>>)} \cup Failures

WriteAnswers == {Ok(<<>>, <<>>)} \cup Failures

Periods == {<<"daily">>, <<"weekly">>, <<"monthly">>, <<"quarterly">>, <<"yearly">>, <<"hourly">>}

Queries == {<<>>, <<"q">>}

-----------------------------------------------------------------------------
(* Actions: one per client method.  An invocation runs from its call to *)
(* its return or raise; the state keeps what it was, sent, got and gave. *)

Idle == [layer |-> "none", name |-> "", args |-> <<>>]

Init ==
    /\ config \in Configs
    /\ call = Idle
    /\ reqs = <<>>
    /\ resps = <<>>
    /\ outcome = Pending

Finish(layer, name, args, run) ==
    \E done \in {run} :
        /\ call' = [layer |-> layer, name |-> name, args |-> args]
        /\ reqs' = done.reqs
        /\ resps' = done.resps
        /\ outcome' = done.out
        /\ UNCHANGED config

Client == Obsidian(config)

ListFilesInVault ==
    /\ call = Idle
    /\ \E r \in ListAnswers :
           Finish("client", "list_files_in_vault", <<>>, list_files_in_vault(Client, r))

ListFilesInDir ==
    /\ call = Idle
    /\ \E p \in FilePaths, r \in ListAnswers :
           Finish("client", "list_files_in_dir", [dirpath |-> p],
                  list_files_in_dir(Client, p, r))

GetFileContents ==
    /\ call = Idle
    /\ \E p \in FilePaths, r \in FileAnswers :
           Finish("client", "get_file_contents", [filepath |-> p],
                  get_file_contents(Client, p, r))

GetBatchFileContents ==
    /\ call = Idle
    /\ \E ps \in UNION {[1..k -> FilePaths \ {<<>>}] : k \in 0..MaxBatch} :
           \E rs \in [DOMAIN ps -> FileAnswers] :
               Finish("client", "get_batch_file_contents", [filepaths |-> ps],
                      get_batch_file_contents(Client, ps, rs))

Search ==
    /\ call = Idle
    /\ \E q \in Queries, n \in {0, 100}, r \in JsonAnswers :
           Finish("client", "search", [query |-> q, context_length |-> IntVal(n)],
                  search(Client, q, IntVal(n), r))

AppendContent ==
    /\ call = Idle
    /\ \E p \in FilePaths, c \in Contents, r \in WriteAnswers :
           Finish("client", "append_content", [filepath |-> p, content |-> c],
                  append_content(Client, p, c, r))

PatchContent ==
    /\ call = Idle
    /\ \E p \in FilePaths, op \in valid_operations \cup {<<"delete">>}, tt \in valid_target_types \cup {<<"line">>}, t \in {<<>>, <<"A">>, <<"A", ":", ":", "B">>},
          c \in Contents, cim \in BOOLEAN, tw \in BOOLEAN, r \in WriteAnswers :
           Finish("client", "patch_content",
                  [filepath |-> p, operation |-> op, target_type |-> tt, target |-> t,
                   content |-> c, create_if_missing |-> cim, trim_whitespace |-> tw],
                  patch_content(Client, p, op, tt, t, c, cim, tw, r))

DeleteFile ==
    /\ call = Idle
    /\ \E p \in FilePaths, r \in WriteAnswers :
           Finish("client", "delete_file", [filepath |-> p], delete_file(Client, p, r))

SearchJson ==
    /\ call = Idle
    /\ \E q \in Queries, r \in JsonAnswers :
           Finish("client", "search_json", [query |-> q], search_json(Client, q, r))

GetPeriodicNote ==
    /\ call = Idle
    /\ \E pd \in Periods, r \in FileAnswers :
           Finish("client", "get_periodic_note", [period |-> pd],
                  get_periodic_note(Client, pd, r))

GetRecentPeriodicNotes ==
    /\ call = Idle
    /\ \E pd \in Periods, n \in {IntVal(1), IntVal(5), IntVal(50)}, ic \in BOOLEAN,
          r \in JsonAnswers :
           Finish("client", "get_recent_periodic_notes",
                  [period |-> pd, limit |-> n, include_content |-> BoolVal(ic)],
                  get_recent_periodic_notes(Client, pd, n, BoolVal(ic), r))

GetRecentChanges ==
    /\ call = Idle
    /\ \E n \in {IntVal(1), IntVal(5), IntVal(50)}, d \in {IntVal(1), IntVal(90)},
          r \in JsonAnswers :
           Finish("client", "get_recent_changes", [limit |-> n, days |-> d],
                  get_recent_changes(Client, n, d, r))

FindHeadings ==
    /\ call = Idle
    /\ \E p \in FilePaths,
          r \in {Ok(<<>>, Join(<<Newline>>, ls)) :
                    ls \in UNION {[1..k -> HeadingLines] : k \in 0..MaxLines}}
                \cup Failures :
           Finish("client", "find_headings", [filepath |-> p],
                  find_headings(Client, p, r))

CreateOrUpdateNote ==
    /\ call = Idle
    /\ \E p \in FilePaths, c \in Contents, ow \in BOOLEAN, rRead \in FileAnswers,
          rWrite \in WriteAnswers, rPut \in WriteAnswers :
           Finish("client", "create_or_update_note",
                  [filepath |-> p, content |-> c, overwrite |-> ow],
                  create_or_update_note(Client, p, c, ow, rRead, rWrite, rPut))

TryPatchContent ==
    /\ call = Idle
    /\ \E p \in {<<"a">>, <<Slash, "a", Space>>},
          op \in valid_operations \cup {<<"delete">>},
          tt \in {<<"heading">>, <<"frontmatter">>, <<"line">>},
          t \in {<<>>, <<"A">>}, c \in Contents,
          fb \in {<<>>, <<"append">>, <<"replace">>, <<"delete">>},
          r \in WriteAnswers, rFallback \in WriteAnswers :
           Finish("client", "try_patch_content",
                  [filepath |-> p, operation |-> op, target_type |-> tt, target |-> t,
                   content |-> c, fallback_operation |-> fb],
                  try_patch_content(Client, p, op, tt, t, c, fb, r, rFallback))

\* notes with a tags line in the frontmatter, with one after it, without
\* frontmatter, and empty
AddTag ==
    /\ call = Idle
    /\ \E p \in {<<"a">>, <<Slash, "a", Space>>}, tag \in {<<"x">>, <<"#", "x">>},
          rRead \in {Ok(<<>>, d) :
                        d \in {<<"-", "-", "-", "\n", "tags:", " ", "a", "\n", "-", "-", "-", "\n", "t">>,
                               <<"-", "-", "-", "\n", "t", "\n", "-", "-", "-", "\n", "tags:", " ", "a">>,
                               <<"t">>, <<>>}} \cup Failures,
          rWrite \in WriteAnswers, rReplace \in WriteAnswers :
           Finish("client", "add_tag", [filepath |-> p, tag |-> tag],
                  add_tag(Client, p, tag, rRead, rWrite, rReplace))

-----------------------------------------------------------------------------
(* Inputs of the tool invocations *)

\* the dict without one of its keys
Without(args, key) == [k \in DOMAIN args \ {key} |-> args[k]]

\* the dicts of a set, and each of them with one key left out
WithOmissions(dicts) ==
    dicts \cup UNION {{Without(d, k) : k \in DOMAIN d} : d \in dicts}

\* the dicts of a set, and those of them in bases with one key left out
OmittingFrom(dicts, bases) ==
    dicts \cup UNION {{Without(d, k) : k \in DOMAIN d} : d \in bases}

\* integer-typed arguments as a caller may send them: in range, out of
\* range, and not integers
LimitValues == {IntVal(0), IntVal(1), IntVal(50), IntVal(51), IntVal(101),
                BoolVal(TRUE), TextVal(<<"5">>)}

Headings == {<<>>, <<"A">>, <<"B">>, <<"A", ":", ":", "B">>}

ToolPaths == {<<"a">>, <<Slash, "a", Space>>}

\* the answers to the read that precedes a patch
LookupAnswers ==
    {Ok(<<>>, d) : d \in Docs \cup {<<"#", " ", "A", "B", "\n", "#", " ", "A">>}}
        \cup {f \in Failures : \/ f.kind = "http" /\ f.status = 404 /\ f.json # <<>>
                               \/ f.kind = "net" /\ ~Contains(f.text, <<ConnectionRefused>>)
                                  /\ Contains(f.text, <<"HTTPSConnectionPool: Read timed out. (read timeout=6)">>)}

\* the answers to the reads of a batch
BatchAnswers ==
    {Ok(<<>>, d) : d \in Docs \ {<<>>}}
        \cup {f \in Failures : \/ f.kind = "http" /\ f.status = 404
                               \/ f.kind = "net"}

PatchContentArgs ==
    LET full ==
            {[filepath |-> p, operation |-> op, target_type |-> tt, target |-> t,
              content |-> <<"x">>, create_if_missing |-> cim, trim_whitespace |-> tw] :
                p \in ToolPaths, op \in {<<"append">>, <<"replace">>, <<"delete">>},
                tt \in {<<"heading">>, <<"block">>, <<"line">>},
                t \in Headings, cim \in BOOLEAN, tw \in BOOLEAN}
    IN  OmittingFrom(full,
                     {d \in full :
                         /\ d.filepath = <<"a">> /\ d.operation = <<"append">>
                         /\ ~d.create_if_missing /\ ~d.trim_whitespace})

AddToHeadingArgs ==
    LET full ==
            {[filepath |-> p, heading |-> h, content |-> <<"x">>, position |-> pos,
              trim_whitespace |-> tw, create_if_missing |-> cim, list_headings |-> lh] :
                p \in ToolPaths, h \in Headings \cup {<<Space, "B">>},
                pos \in {<<"start">>, <<"end">>, <<"middle">>},
                tw \in BOOLEAN, cim \in BOOLEAN, lh \in BOOLEAN}
    IN  OmittingFrom(full,
                     {d \in full :
                         /\ d.filepath = <<"a">> /\ d.position = <<"start">>
                         /\ ~d.create_if_missing})

-----------------------------------------------------------------------------
(* Actions: one per tool handler *)

ListFilesInVaultToolRun ==
    /\ call = Idle
    /\ \E r \in ListAnswers :
           Finish("tool", "obsidian_list_files_in_vault", <<>>,
                  ListFilesInVaultTool(config, <<>>, r))

ListFilesInDirToolRun ==
    /\ call = Idle
    /\ \E args \in WithOmissions({[dirpath |-> p] : p \in FilePaths}), r \in ListAnswers :
           Finish("tool", "obsidian_list_files_in_dir", args,
                  ListFilesInDirTool(config, args, r))

GetFileContentsToolRun ==
    /\ call = Idle
    /\ \E args \in WithOmissions({[filepath |-> p] :
                                     p \in FilePaths}),
          r \in FileAnswers :
           Finish("tool", "obsidian_get_file_contents", args,
                  GetFileContentsTool(config, args, r))

SearchToolRun ==
    /\ call = Idle
    /\ \E args \in WithOmissions({[query |-> q, context_length |-> IntVal(n)] :
                                     q \in Queries,
                                     n \in {0, 100}}),
          r \in JsonAnswers :
           Finish("tool", "obsidian_simple_search", args, SearchTool(config, args, r))

AppendContentToolRun ==
    /\ call = Idle
    /\ \E args \in WithOmissions({[filepath |-> p, content |-> c] :
                                     p \in FilePaths,
                                     c \in Contents}),
          r \in WriteAnswers :
           Finish("tool", "obsidian_append_content", args,
                  AppendContentTool(config, args, r))

PatchContentToolRun ==
    /\ call = Idle
    /\ \E args \in PatchContentArgs, rRead \in LookupAnswers, rWrite \in WriteAnswers :
           Finish("tool", "obsidian_patch_content", args,
                  PatchContentTool(config, args, rRead, rWrite))

DeleteFileToolRun ==
    /\ call = Idle
    /\ \E args \in WithOmissions({[filepath |-> p, confirm |-> c] :
                                     p \in FilePaths,
                                     c \in {BoolVal(TRUE), BoolVal(FALSE),
                                            TextVal(<<"false">>), TextVal(<<>>),
                                            IntVal(0)}}),
          r \in WriteAnswers :
           Finish("tool", "obsidian_delete_file", args, DeleteFileTool(config, args, r))

ComplexSearchToolRun ==
    /\ call = Idle
    /\ \E args \in WithOmissions({[query |-> q] : q \in Queries}), r \in JsonAnswers :
           Finish("tool", "obsidian_complex_search", args,
                  ComplexSearchTool(config, args, r))

BatchGetFileContentsToolRun ==
    /\ call = Idle
    /\ \E args \in WithOmissions({[filepaths |-> ps] :
                                     ps \in UNION {[1..k -> ToolPaths] : k \in 0..MaxBatch}}) :
           \E rs \in [1..Len(Get(args, "filepaths", <<>>)) -> BatchAnswers] :
               Finish("tool", "obsidian_batch_get_file_contents", args,
                      BatchGetFileContentsTool(config, args, rs))

PeriodicNotesToolRun ==
    /\ call = Idle
    /\ \E args \in WithOmissions({[period |-> pd] : pd \in Periods}), r \in FileAnswers :
           Finish("tool", "obsidian_get_periodic_note", args,
                  PeriodicNotesTool(config, args, r))

RecentPeriodicNotesToolRun ==
    /\ call = Idle
    /\ \E args \in WithOmissions({[period |-> pd, limit |-> n, include_content |-> ic] :
                                     pd \in {<<"daily">>, <<"yearly">>, <<"hourly">>},
                                     n \in LimitValues,
                                     ic \in {BoolVal(TRUE), BoolVal(FALSE), TextVal(<<"yes">>)}}),
          r \in JsonAnswers :
           Finish("tool", "obsidian_get_recent_periodic_notes", args,
                  RecentPeriodicNotesTool(config, args, r))

RecentChangesToolRun ==
    /\ call = Idle
    /\ \E args \in WithOmissions({[limit |-> n, days |-> d] :
                                     n \in LimitValues,
                                     d \in {IntVal(0), IntVal(1), IntVal(90), TextVal(<<"7">>)}}),
          r \in JsonAnswers :
           Finish("tool", "obsidian_get_recent_changes", args,
                  RecentChangesTool(config, args, r))

AddToHeadingToolRun ==
    /\ call = Idle
    /\ \E args \in AddToHeadingArgs, rRead \in LookupAnswers, rWrite \in WriteAnswers :
           Finish("tool", "obsidian_add_to_heading", args,
                  AddToHeadingTool(config, args, rRead, rWrite))

ToolNext ==
    \/ ListFilesInVaultToolRun
    \/ ListFilesInDirToolRun
    \/ GetFileContentsToolRun
    \/ SearchToolRun
    \/ AppendContentToolRun
    \/ PatchContentToolRun
    \/ DeleteFileToolRun
    \/ ComplexSearchToolRun
    \/ BatchGetFileContentsToolRun
    \/ PeriodicNotesToolRun
    \/ RecentPeriodicNotesToolRun
    \/ RecentChangesToolRun
    \/ AddToHeadingToolRun

\* the invocation is over and the process awaits the next one: nothing of
\* it is kept (no state outlives a call)
NextInvocation ==
    /\ call # Idle
    /\ call.name # "_normalize_path"
    /\ call' = Idle
    /\ reqs' = <<>>
    /\ resps' = <<>>
    /\ outcome' = Pending
    /\ UNCHANGED config

ClientNext ==
    \/ ListFilesInVault
    \/ ListFilesInDir
    \/ GetFileContents
    \/ GetBatchFileContents
    \/ Search
    \/ AppendContent
    \/ PatchContent
    \/ DeleteFile
    \/ SearchJson
    \/ GetPeriodicNote
    \/ GetRecentPeriodicNotes
    \/ GetRecentChanges
    \/ FindHeadings
    \/ CreateOrUpdateNote
    \/ TryPatchContent
    \/ AddTag

Next == ClientNext \/ ToolNext \/ NextInvocation

Spec == Init /\ [][Next]_vars


-----------------------------------------------------------------------------
(* Claims about the client *)

IsClientCall(name) ==
    call.layer = "client" /\ call.name = name /\ outcome.kind # "pending"

\* the methods of one remote capability each
SingleMethods ==
    {"list_files_in_vault", "list_files_in_dir", "get_file_contents", "search",
     "search_json", "append_content", "patch_content", "delete_file",
     "get_periodic_note", "get_recent_periodic_notes", "get_recent_changes"}

IsSingleCall ==
    call.layer = "client" /\ call.name \in SingleMethods /\ outcome.kind # "pending"

\* the patch_content call in the state has a bad operation or target type
BadPatchArguments ==
    \/ call.args.operation \notin {<<"append">>, <<"prepend">>, <<"replace">>}
    \/ call.args.target_type \notin {<<"heading">>, <<"block">>, <<"frontmatter">>}

\* C4: patch_content rejects with a validation error, and without issuing
\* any HTTP request, every call whose operation is not append, prepend or
\* replace or whose target type is not heading, block or frontmatter.
C4_PatchRejectsBadArguments ==
    (IsClientCall("patch_content") /\ BadPatchArguments) =>
        /\ outcome.kind = "raise"
        /\ outcome.exc = "ValueError"
        /\ reqs = <<>>

\* a patch with a valid operation, a target and a bad target type was rejected
C4_Witness ==
    /\ IsClientCall("patch_content")
    /\ call.args.operation = <<"append">>
    /\ call.args.target_type = <<"line">>
    /\ call.args.target # <<>>
    /\ outcome.exc = "ValueError"

\* the blocks of a batch result: the runs that BlockEnd ends
BlocksOf(text) == SplitOn(text, BlockEnd)

\* C5: get_batch_file_contents never raises: it reads the paths one after
\* the other in input order, whatever each read gives, and returns one
\* string of exactly one block per path in that order, a block holding the
\* file's content or an inline "Error reading file" text.
C5_BatchNeverRaises ==
    IsClientCall("get_batch_file_contents") =>
        LET ps == call.args.filepaths
            blocks == BlocksOf(outcome.value)
        IN  /\ outcome.kind = "return"
            /\ Len(reqs) = Len(ps)
            /\ Len(resps) = Len(ps)
            /\ Len(blocks) = Len(ps) + 1
            /\ blocks[Len(blocks)] = <<>>
            /\ \A i \in DOMAIN ps :
                /\ reqs[i].verb = "GET"
                /\ reqs[i].url = <<"https", "://">> \o config.host \o <<":">>
                                    \o Str(DefaultPort) \o <<"/vault/">>
                                    \o _normalize_path(ps[i])
                /\ IF resps[i].kind = "http" /\ resps[i].status = 200
                   THEN blocks[i] = <<"# ">> \o ps[i] \o <<"\n\n">> \o resps[i].text
                   ELSE StartsWith(blocks[i],
                                   <<"# ">> \o ps[i] \o <<"\n\nError reading file: ">>)

\* a batch of two whose first read failed and whose second succeeded
C5_Witness ==
    /\ IsClientCall("get_batch_file_contents")
    /\ Len(call.args.filepaths) = 2
    /\ Len(resps) = 2
    /\ resps[1].kind = "net"
    /\ resps[2].kind = "http" /\ resps[2].status = 200 /\ resps[2].text # <<>>
    /\ outcome.kind = "return"

\* the call in the state passes the method's own validation
PassesValidation ==
    call.name = "patch_content" =>
        /\ ~BadPatchArguments
        /\ call.args.target # <<>>

\* C6: each single-capability client method issues exactly one HTTP request
\* per call that passes local validation, and the request carries the
\* Authorization header "Bearer <the configured API key>".
C6_OneRequestWithBearer ==
    (IsSingleCall /\ PassesValidation) =>
        /\ Len(reqs) = 1
        /\ "Authorization" \in DOMAIN reqs[1].headers
        /\ reqs[1].headers["Authorization"] = <<"Bearer ">> \o config.api_key

\* a valid patch was sent once and the server refused it
C6_Witness ==
    /\ IsClientCall("patch_content")
    /\ PassesValidation
    /\ Len(reqs) = 1
    /\ reqs[1].verb = "PATCH"
    /\ outcome.kind = "raise"

\* the server answered the call's request with a non-2xx status
AnsweredWithError == Len(resps) = 1 /\ RaisesForStatus(resps[1])

\* the identifying arguments named in the claim, as the request uses them
ContextKeys == {"filepath", "dirpath", "period"}

ShownArgument(k) ==
    IF k \in {"filepath", "dirpath"} THEN _normalize_path(call.args[k]) ELSE call.args[k]

\* C8: when the server answers a client method with a non-2xx status, the
\* method raises an error whose message contains the name of the operation
\* and every non-empty contextual key/value pair of the call (the filepath,
\* the period).
C8_HttpErrorNamesOperationAndContext ==
    (IsSingleCall /\ AnsweredWithError) =>
        /\ outcome.kind = "raise"
        /\ Contains(outcome.value, <<call.name>>)
        /\ \A k \in DOMAIN call.args \cap ContextKeys :
              ShownArgument(k) # <<>> =>
                  Contains(outcome.value, <<k, "='">> \o ShownArgument(k) \o <<"'">>)

\* C9: a 404 answer to get_file_contents surfaces an error whose message
\* contains the path of the requested file and the suggestion to list the
\* vault files (list_files_in_vault).
C9_NotFoundNamesFileAndSuggestsListing ==
    (IsClientCall("get_file_contents") /\ Len(resps) = 1
        /\ resps[1].kind = "http" /\ resps[1].status = 404) =>
        LET requested == _normalize_path(call.args.filepath)
        IN  /\ outcome.kind = "raise"
            /\ Contains(outcome.value, requested)
            /\ Contains(outcome.value,
                        <<"\nSuggestion: Check if the file '">> \o requested
                           \o <<"' exists in your vault. Use list_files_in_vault() to see available files.">>)

\* a read of a\a was answered 404 with an empty body
C9_Witness ==
    /\ IsClientCall("get_file_contents")
    /\ call.args.filepath = <<"a", Backslash, "a">>
    /\ Len(resps) = 1
    /\ resps[1].kind = "http" /\ resps[1].status = 404 /\ ~resps[1].content
    /\ outcome.kind = "raise"

\* the call's request got no HTTP response
NetworkFailed == Len(resps) = 1 /\ resps[1].kind = "net"

BeginsRequestFailed == StartsWith(outcome.value, <<"Request failed: ">>)

\* the message names the configured host and port in the connection hint
CarriesConnectionHint ==
    Contains(outcome.value,
             <<"\nSuggestion: Verify that Obsidian is running and the Local REST API plugin is enabled. Check that the host (">>
                \o config.host \o <<") and port (">> \o Str(DefaultPort)
                \o <<") are correct.">>)

\* C10 as claimed: every network-level failure (connection refused, timeout,
\* TLS, DNS) of a client method is re-raised with a message that begins
\* "Request failed" and carries the hint naming the configured host and port.
C10_EveryNetworkFailureCarriesHint ==
    (IsSingleCall /\ NetworkFailed) =>
        /\ outcome.kind = "raise"
        /\ BeginsRequestFailed
        /\ CarriesConnectionHint

\* C10 as amended: a network-level failure of a single-request client method
\* is re-raised with a message that begins "Request failed" followed by the
\* failure's text; the hint naming the configured host and port is carried
\* exactly when that text contains "Connection refused".
C10_NetworkFailureHintWhenRefused ==
    (IsSingleCall /\ NetworkFailed) =>
        /\ outcome.kind = "raise"
        /\ outcome.exc = "Exception"
        /\ StartsWith(outcome.value, <<"Request failed: ">> \o resps[1].text)
        /\ CarriesConnectionHint <=> Contains(resps[1].text, <<"Connection refused">>)

\* a delete was refused a connection and its error carries the hint
C10_Witness ==
    /\ IsClientCall("delete_file")
    /\ NetworkFailed
    /\ Contains(resps[1].text, <<"Connection refused">>)
    /\ outcome.kind = "raise"
    /\ CarriesConnectionHint

\* C18: the request of every valid patch_content call carries the Operation
\* and Target-Type headers equal to the given operation and target type,
\* the Create-Target-If-Missing header if and only if create_if_missing is
\* true and the Trim-Target-Whitespace header if and only if
\* trim_whitespace is true.
C18_PatchHeadersFollowArguments ==
    (IsClientCall("patch_content") /\ PassesValidation) =>
        /\ Len(reqs) = 1
        /\ reqs[1].headers["Operation"] = call.args.operation
        /\ reqs[1].headers["Target-Type"] = call.args.target_type
        /\ "Create-Target-If-Missing" \in DOMAIN reqs[1].headers
               <=> call.args.create_if_missing
        /\ "Trim-Target-Whitespace" \in DOMAIN reqs[1].headers
               <=> call.args.trim_whitespace

\* a valid patch that asks to create the target and not to trim was sent
C18_Witness ==
    /\ IsClientCall("patch_content")
    /\ PassesValidation
    /\ call.args.create_if_missing
    /\ ~call.args.trim_whitespace
    /\ Len(reqs) = 1
    /\ reqs[1].headers["Create-Target-If-Missing"] = <<"true">>

\* create_or_update_note was called and has returned or raised
NoteCalled ==
    /\ IsClientCall("create_or_update_note")
    /\ outcome.kind # "pending"

\* the file exists: the GET that opens create_or_update_note was answered
\* with the file
FileExists ==
    /\ resps # <<>>
    /\ resps[1].kind = "http"
    /\ ~RaisesForStatus(resps[1])

\* the number of requests issued with the verb
Issued(verb) == Cardinality({i \in DOMAIN reqs : reqs[i].verb = verb})

\* C20: create_or_update_note follows its documented cases for every
\* outcome of its requests: when the file exists and overwrite is false the
\* content is appended by one POST and no PUT is issued; when the file does
\* not exist or overwrite is true a PUT is issued.
C20_DocumentedCases ==
    NoteCalled =>
        IF FileExists /\ ~call.args.overwrite
        THEN Issued("POST") = 1 /\ Issued("PUT") = 0
        ELSE Issued("PUT") >= 1

\* the answer is no error: the request was answered with a 2xx status
Fine(r) == r.kind = "http" /\ ~RaisesForStatus(r)

\* patch_content accepts the operation with the target of the invocation
AcceptsOperation(operation) ==
    /\ operation \in valid_operations
    /\ call.args.target_type \in valid_target_types
    /\ call.args.target # <<>>

\* the primary patch of a try_patch_content invocation succeeded
PrimarySucceeded ==
    /\ AcceptsOperation(call.args.operation)
    /\ Fine(resps[1])

\* the fallback was attempted: patch_content was called a second time
FallbackAttempted ==
    /\ ~PrimarySucceeded
    /\ call.args.fallback_operation # <<>>

FallbackSucceeded ==
    /\ FallbackAttempted
    /\ AcceptsOperation(call.args.fallback_operation)
    /\ Fine(resps[Len(resps)])

\* the message with which patch_content fails for the operation, its
\* request, if it came to one, answered by the response at index i
PatchErrorOf(operation, i) ==
    patch_content(Client, call.args.filepath, operation, call.args.target_type,
                  call.args.target, call.args.content, FALSE, FALSE,
                  IF i \in DOMAIN resps THEN resps[i] ELSE Ok(<<>>, <<>>)).out.value

\* C21: try_patch_content never raises.  It returns (True, None) when the
\* primary patch succeeds or, the primary having failed and a fallback
\* operation being given, the fallback succeeds; otherwise (False,
\* message), the message being the fallback's error when the fallback was
\* attempted and the primary's otherwise.  A request with the fallback
\* operation is issued only when the primary failed and a fallback is given.
C21_TryPatchNeverRaises ==
    IsClientCall("try_patch_content") =>
        /\ outcome.kind = "return"
        /\ outcome.value.success = (PrimarySucceeded \/ FallbackSucceeded)
        /\ outcome.value.message =
               IF PrimarySucceeded \/ FallbackSucceeded THEN <<>>
               ELSE IF FallbackAttempted
                    THEN PatchErrorOf(call.args.fallback_operation, Len(resps))
                    ELSE PatchErrorOf(call.args.operation, 1)
        /\ Len(reqs) = (IF AcceptsOperation(call.args.operation) THEN 1 ELSE 0)
                         + (IF /\ FallbackAttempted
                               /\ AcceptsOperation(call.args.fallback_operation)
                            THEN 1 ELSE 0)
        /\ \A i \in DOMAIN reqs :
               /\ reqs[i].verb = "PATCH"
               /\ reqs[i].headers["Operation"] =
                      IF i = 1 /\ AcceptsOperation(call.args.operation)
                      THEN call.args.operation
                      ELSE call.args.fallback_operation

\* both patches were sent and failed, and the fallback's error is returned
C21_Witness ==
    /\ IsClientCall("try_patch_content")
    /\ Len(reqs) = 2
    /\ ~outcome.value.success
    /\ outcome.value.message = PatchErrorOf(call.args.fallback_operation, 2)
    /\ outcome.value.message # PatchErrorOf(call.args.operation, 1)

\* add_tag was called on a file that was read and whose frontmatter has a
\* tags line
TaggingTaggedFile ==
    /\ IsClientCall("add_tag")
    /\ Fine(resps[1])
    /\ FindTagsLine(SplitOn(resps[1].text, Newline), FALSE) # <<>>

\* the operations of the PATCH requests issued, in order
PatchOperations ==
    [i \in DOMAIN reqs |->
        IF reqs[i].verb = "PATCH" THEN reqs[i].headers["Operation"] ELSE <<>>]

\* C27: add_tag on a file whose frontmatter already has a 'tags:' line only
\* appends to the tags field: for every outcome of its requests it issues
\* no replace operation, so a replace is issued only when the file has no
\* tags line or could not be read.
C27_TaggedFileNeverReplaced ==
    TaggingTaggedFile =>
        \A i \in DOMAIN reqs : PatchOperations[i] # <<"replace">>

\* C28: create_or_update_note issues at most one mutating request (one PUT
\* or one POST on the vault path) per call, for every combination of file
\* existence, overwrite flag and request outcome, including when the write
\* request itself fails.
C28_AtMostOneWrite ==
    NoteCalled => Issued("PUT") + Issued("POST") <= 1

-----------------------------------------------------------------------------
(* Claims about find_headings *)

\* find_headings was called and its read was answered with the file
HeadingsRead ==
    IsClientCall("find_headings") /\ Len(resps) = 1 /\ resps[1].kind = "http"
        /\ ~RaisesForStatus(resps[1])

\* the trimmed line starts with one or more '#' immediately followed by a
\* space
HashesThenSpace(line) ==
    LET s == StripChars(line, Whitespace)
        n == LeadingHashes(s)
    IN  n >= 1 /\ Len(s) > n /\ s[n + 1] = Space

\* C11: find_headings yields one entry per line that, trimmed, starts with
\* '#'s immediately followed by a space, in document order, and no entry
\* for any other line (such as '#tag some words').
C11_EntriesAreHashSpaceLines ==
    HeadingsRead =>
        LET proper == SelectSeq(SplitOn(resps[1].text, Newline), HashesThenSpace)
        IN  /\ Len(outcome.value) = Len(proper)
            /\ \A i \in DOMAIN proper :
                   outcome.value[i].level
                       = LeadingHashes(StripChars(proper[i], Whitespace))

ReadFailed ==
    Len(resps) = 1 /\ (resps[1].kind = "net" \/ RaisesForStatus(resps[1]))

\* C13: find_headings never raises; when the read of the file fails (HTTP
\* error or network failure) it returns the empty list.
C13_FindHeadingsNeverRaises ==
    IsClientCall("find_headings") =>
        /\ outcome.kind = "return"
        /\ ReadFailed => outcome.value = <<>>

\* find_headings returned after its read was answered 404
C13_Witness ==
    /\ IsClientCall("find_headings")
    /\ ReadFailed
    /\ resps[1].status = 404
    /\ outcome = Return(<<>>)

-----
(* Claims about the tool handlers *)

IsToolCall(name) == call.layer = "tool" /\ call.name = name

\* the verbs of the requests issued, in order
Verbs == [i \in DOMAIN reqs |-> reqs[i].verb]

\* the tools whose handler looks the headings up before it patches
LooksHeadingsUp ==
    \/ IsToolCall("obsidian_add_to_heading")
    \/ /\ IsToolCall("obsidian_patch_content")
       /\ Get(call.args, "target_type", <<>>) = <<"heading">>

\* C7 as stated: every tool invocation, whatever the tool, issues at most
\* one HTTP request from its start to its return or raise.
C7_EveryToolAtMostOneRequest ==
    call.layer = "tool" => Len(reqs) <= 1

\* C7 amended: a tool invocation issues at most one HTTP request, except
\* that batch-read issues exactly one GET per path of its input, and that
\* patch-content on a heading target and add-to-heading first issue one GET
\* (the heading lookup) and then at most one PATCH.
C7_ToolRequestBound ==
    call.layer = "tool" =>
        IF IsToolCall("obsidian_batch_get_file_contents")
        THEN /\ Len(reqs) = Len(Get(call.args, "filepaths", <<>>))
             /\ \A i \in DOMAIN reqs : reqs[i].verb = "GET"
        ELSE IF LooksHeadingsUp
             THEN Verbs \in {<<>>, <<"GET">>, <<"GET", "PATCH">>}
             ELSE Len(reqs) <= 1

\* a patch-content invocation that returned after the lookup and the patch
C7_Witness ==
    /\ IsToolCall("obsidian_patch_content")
    /\ Verbs = <<"GET", "PATCH">>
    /\ outcome.kind = "return"

\* the invocation lacks an argument its tool's schema requires
LacksRequired ==
    call.layer = "tool" /\ \E k \in required(call.name) : k \notin DOMAIN call.args

\* C14: a tool invocation whose arguments lack a key that the tool's input
\* schema lists as required raises an error before any HTTP request.
C14_MissingRequiredRaisesUnsent ==
    LacksRequired => outcome.kind = "raise" /\ reqs = <<>>

\* a delete invocation that names the file and lacks confirm was refused
\* unsent
C14_Witness ==
    /\ LacksRequired
    /\ IsToolCall("obsidian_delete_file")
    /\ DOMAIN call.args = {"filepath"}
    /\ outcome.kind = "raise"
    /\ reqs = <<>>

\* the invocation gives an argument whose schema declares an enum a value
\* outside that enum
OutsideEnum ==
    /\ call.layer = "tool"
    /\ \/ /\ call.name \in {"obsidian_get_periodic_note",
                             "obsidian_get_recent_periodic_notes"}
          /\ "period" \in DOMAIN call.args
          /\ call.args["period"] \notin
                 {<<"daily">>, <<"weekly">>, <<"monthly">>, <<"quarterly">>, <<"yearly">>}
       \/ /\ call.name = "obsidian_patch_content"
          /\ "operation" \in DOMAIN call.args
          /\ call.args["operation"] \notin {<<"append">>, <<"prepend">>, <<"replace">>}
       \/ /\ call.name = "obsidian_patch_content"
          /\ "target_type" \in DOMAIN call.args
          /\ call.args["target_type"] \notin
                 {<<"heading">>, <<"block">>, <<"frontmatter">>}
       \/ /\ call.name = "obsidian_add_to_heading"
          /\ "position" \in DOMAIN call.args
          /\ call.args["position"] \notin {<<"start">>, <<"end">>}

\* C15: a tool invocation with a value outside the enum its schema declares
\* (period, operation, target_type, position) raises an error before any
\* HTTP request is issued, and no request is sent for it.
C15_BadEnumRaisesUnsent ==
    OutsideEnum => outcome.kind = "raise" /\ reqs = <<>>

\* the patch-content tool, given all it requires, raised
PatchToolRaised ==
    /\ IsToolCall("obsidian_patch_content")
    /\ required(call.name) \subseteq DOMAIN call.args
    /\ outcome.kind = "raise"

\* the status with which the PATCH request failed, 0 when none did
PatchFailureStatus ==
    IF /\ reqs # <<>>
       /\ reqs[Len(reqs)].verb = "PATCH"
       /\ RaisesForStatus(resps[Len(resps)])
    THEN resps[Len(resps)].status
    ELSE 0

\* the suggestion the handler appended to the message, none when it did not
AppendedSuggestion ==
    LET last == outcome.value[Len(outcome.value)]
    IN  IF last = "\n\nSuggestion: Check that the heading exists exactly as specified. You can use trim_whitespace=true to ignore whitespace differences, or create_if_missing=true to create the heading if it doesn't exist."
        THEN "heading"
        ELSE IF last = "\n\nSuggestion: Verify that your operation, target_type, and target values are valid. Heading paths should use :: as delimiters between levels."
             THEN "values"
             ELSE "none"

\* C16: when the PATCH of the patch-content tool fails with status 404 on a
\* heading target the handler appends its heading suggestion to the client's
\* message, when it fails with status 400 it appends its suggestion on the
\* values; for every other failure it appends none.
C16_SuggestionFollowsStatus ==
    PatchToolRaised =>
        AppendedSuggestion =
            IF PatchFailureStatus = 404 /\ call.args["target_type"] = <<"heading">>
            THEN "heading"
            ELSE IF PatchFailureStatus = 400 THEN "values" ELSE "none"

\* the request is built from the configured key and host, the https
\* protocol, port 27124, no TLS verification and the (3, 6) timeouts
BuiltFromConfiguration(req) ==
    /\ \E path \in {"/vault/", "/search/", "/search/simple/", "/periodic/"} :
           StartsWith(req.url, <<"https", "://">> \o config.host
                                  \o <<":", "2", "7", "1", "2", "4", path>>)
    /\ req.headers["Authorization"] = <<"Bearer ">> \o config.api_key
    /\ req.verify = FALSE
    /\ req.timeout = <<3, 6>>

\* C17: every invocation builds its client from the process-level key and
\* host and nothing changes that configuration: after any sequence of
\* invocations, successful or failing, every request is built from the
\* same protocol, host, port, API key, TLS-verify flag and timeouts.
C17_ConfigurationNeverChanges ==
    /\ [](\A i \in DOMAIN reqs : BuiltFromConfiguration(reqs[i]))
    /\ [][config' = config]_vars

\* a failing tool invocation that sent two requests to the configured
\* remote host
C17_Witness ==
    /\ IsToolCall("obsidian_add_to_heading")
    /\ config.host = <<"obsidian.lan">>
    /\ outcome.kind = "raise"
    /\ Len(reqs) = 2
    /\ \A i \in DOMAIN reqs : BuiltFromConfiguration(reqs[i])

\* a patch-content invocation with all required arguments that returned
PatchToolReturned ==
    /\ IsToolCall("obsidian_patch_content")
    /\ required(call.name) \subseteq DOMAIN call.args
    /\ outcome.kind = "return"

\* the PATCH request for the file of the invocation is among the requests
PatchIssued ==
    \E i \in DOMAIN reqs :
        /\ reqs[i].verb = "PATCH"
        /\ reqs[i].url = VaultUrl(Client, _normalize_path(call.args["filepath"]))

\* C19 as stated: every patch-content invocation with all required
\* arguments that returns normally has issued the PATCH request for the
\* given file.
C19_ReturnMeansPatchIssued ==
    PatchToolReturned => PatchIssued

\* C19 amended: a patch-content invocation with all required arguments that
\* returns normally has either issued the PATCH request for the given file
\* as its last request and got an answer that is no error, or it returns the
\* 'No exact match for heading' suggestion instead of patching: then the
\* target type is heading, create_if_missing is not set, and the one
\* request issued is the GET of the heading lookup.
C19_ReturnMeansPatchedOrSuggested ==
    PatchToolReturned =>
        IF Head(outcome.value.text) = "No exact match for heading '"
        THEN /\ call.args["target_type"] = <<"heading">>
             /\ ~Get(call.args, "create_if_missing", FALSE)
             /\ Verbs = <<"GET">>
        ELSE /\ PatchIssued
             /\ reqs[Len(reqs)].verb = "PATCH"
             /\ resps[Len(resps)].kind = "http"
             /\ ~RaisesForStatus(resps[Len(resps)])
             /\ outcome.value.text
                    = <<"Successfully patched content in ">> \o call.args["filepath"]

\* the handler returned the suggestion and no PATCH was issued
C19_Witness ==
    /\ PatchToolReturned
    /\ Head(outcome.value.text) = "No exact match for heading '"
    /\ ~PatchIssued

\* the value is not an integer of the range lo..hi (a bool is no integer
\* of a JSON schema)
NotIntegerIn(x, lo, hi) == x.type # "int" \/ x.val < lo \/ x.val > hi

\* the invocation gives limit or days a value outside the range declared by
\* the input schema of its tool
OutsideDeclaredRange ==
    \/ /\ IsToolCall("obsidian_get_recent_periodic_notes")
       /\ "limit" \in DOMAIN call.args
       /\ NotIntegerIn(call.args["limit"], 1, 50)
    \/ /\ IsToolCall("obsidian_get_recent_changes")
       /\ \/ /\ "limit" \in DOMAIN call.args
             /\ NotIntegerIn(call.args["limit"], 1, 100)
          \/ /\ "days" \in DOMAIN call.args
             /\ NotIntegerIn(call.args["days"], 1, call.args["days"].val)

\* C22: the recent-periodic-notes and recent-changes tools forward only
\* values inside the ranges their schemas declare (limit in 1..50, limit in
\* 1..100 and days >= 1): a non-integer value or a value outside the range
\* raises before any HTTP request is issued.
C22_OutOfRangeRaisesUnsent ==
    OutsideDeclaredRange => outcome.kind = "raise" /\ reqs = <<>>

\* a DELETE request is among the requests of the invocation
DeleteSent == \E i \in DOMAIN reqs : reqs[i].verb = "DELETE"

\* the invocation's confirm argument is present and true
Confirmed ==
    /\ "confirm" \in DOMAIN call.args
    /\ call.args["confirm"] = BoolVal(TRUE)

\* C23: the delete tool never issues a DELETE request unless the confirm
\* argument is present and true: a delete invocation with confirm absent or
\* not true raises with no request sent, and every DELETE request sent by a
\* tool invocation belongs to a delete invocation with confirm true.
C23_DeleteOnlyWhenConfirmed ==
    /\ IsToolCall("obsidian_delete_file") /\ ~Confirmed
           => outcome.kind = "raise" /\ reqs = <<>>
    /\ call.layer = "tool" /\ DeleteSent
           => IsToolCall("obsidian_delete_file") /\ Confirmed

\* the invocation is one of the read-only operations
ReadOnlyCall ==
    \/ /\ call.layer = "tool"
       /\ call.name \in {"obsidian_list_files_in_vault", "obsidian_list_files_in_dir",
                          "obsidian_get_file_contents", "obsidian_batch_get_file_contents",
                          "obsidian_simple_search", "obsidian_complex_search",
                          "obsidian_get_periodic_note",
                          "obsidian_get_recent_periodic_notes",
                          "obsidian_get_recent_changes"}
    \/ /\ call.layer = "client"
       /\ call.name \in {"list_files_in_vault", "list_files_in_dir", "get_file_contents",
                          "get_batch_file_contents", "search", "search_json",
                          "get_periodic_note", "get_recent_periodic_notes",
                          "get_recent_changes", "find_headings"}

\* the request goes to one of the search endpoints
ToSearchEndpoint(req) ==
    \/ req.url = get_base_url(Client) \o <<"/search/">>
    \/ req.url = get_base_url(Client) \o <<"/search/simple/">>

\* C24: the read-only operations (list, read-file, batch-read, both
\* searches, both periodic-note tools, recent changes, and find_headings)
\* issue only GET requests or POST requests to the search endpoints, never
\* a POST, PUT, PATCH or DELETE on a vault path, whatever their arguments
\* and whatever the server answers.
C24_ReadOnlyIssuesNoWrite ==
    ReadOnlyCall =>
        \A i \in DOMAIN reqs :
            \/ reqs[i].verb = "GET"
            \/ reqs[i].verb = "POST" /\ ToSearchEndpoint(reqs[i])

\* the simple-search tool posted its query and the server answered 500
C24_Witness ==
    /\ IsToolCall("obsidian_simple_search")
    /\ Len(reqs) = 1
    /\ reqs[1].verb = "POST"
    /\ ToSearchEndpoint(reqs[1])
    /\ resps[1].status = 500
    /\ outcome.kind = "raise"

\* an add-to-heading invocation with all it requires that is to patch
\* (list_headings false) and has returned or raised
Adding ==
    /\ IsToolCall("obsidian_add_to_heading")
    /\ required(call.name) \subseteq DOMAIN call.args
    /\ ~Get(call.args, "list_headings", FALSE)

\* the heading paths of the file as the lookup read them, none when its
\* read failed
PathsRead ==
    IF Fine(resps[1])
    THEN [i \in DOMAIN HeadingsOf(resps[1].text) |-> HeadingsOf(resps[1].text)[i].path]
    ELSE <<>>

\* the first path of PathsRead among those at the indices, the heading
\* when there is none
FirstOf(indices) ==
    IF indices = {} THEN call.args["heading"]
    ELSE PathsRead[CHOOSE i \in indices : \A j \in indices : i <= j]

\* the target as C25 states it: the heading when a path equals it, else
\* under trim_whitespace the first path that contains it, else the heading
StatedTarget ==
    IF \E i \in DOMAIN PathsRead : PathsRead[i] = call.args["heading"]
    THEN call.args["heading"]
    ELSE IF Get(call.args, "trim_whitespace", TRUE)
         THEN FirstOf({i \in DOMAIN PathsRead :
                          Contains(PathsRead[i], call.args["heading"])})
         ELSE call.args["heading"]

\* the target as amended: under trim_whitespace a path also counts when,
\* both trimmed, it contains the heading
TrimmedTarget ==
    IF \E i \in DOMAIN PathsRead : PathsRead[i] = call.args["heading"]
    THEN call.args["heading"]
    ELSE IF Get(call.args, "trim_whitespace", TRUE)
         THEN FirstOf({i \in DOMAIN PathsRead :
                          \/ Contains(PathsRead[i], call.args["heading"])
                          \/ Contains(StripChars(PathsRead[i], Whitespace),
                                      StripChars(call.args["heading"], Whitespace))})
         ELSE call.args["heading"]

\* the PATCH requests of the invocation
Patches == {i \in DOMAIN reqs : reqs[i].verb = "PATCH"}

\* the invocation patched the target and nothing else: one PATCH, none
\* when the target is empty, with the operation that position stands for
\* and the target type heading
PatchedOnly(target) ==
    /\ Cardinality(Patches) = IF target = <<>> THEN 0 ELSE 1
    /\ \A i \in Patches :
           /\ reqs[i].headers["Target"] = Quote(target)
           /\ reqs[i].headers["Target-Type"] = <<"heading">>
           /\ reqs[i].headers["Operation"] =
                  IF Get(call.args, "position", <<"end">>) = <<"end">>
                  THEN <<"append">> ELSE <<"prepend">>

\* C25 as stated: the add-to-heading tool (list_headings false) patches
\* exactly one target: the requested heading when some heading path of the
\* file equals it; otherwise, when trim_whitespace is true, the first path
\* in document order that contains the requested heading as a substring;
\* otherwise the requested heading.  The operation is append when position
\* is 'end' and prepend otherwise, and the target type is heading.
C25_TargetAsStated ==
    Adding => PatchedOnly(StatedTarget)

\* C25 amended: as stated, except that under trim_whitespace the first
\* path is chosen that contains the requested heading or that, both
\* trimmed of outer whitespace, contains it; and that no PATCH is issued
\* when the target so chosen is empty.
C25_TargetWithTrimmedMatch ==
    Adding => PatchedOnly(TrimmedTarget)

\* the requested heading ' B' is in no path, trimmed it is in 'A::B', and
\* that path was patched
C25_Witness ==
    /\ Adding
    /\ call.args["heading"] = <<Space, "B">>
    /\ TrimmedTarget = <<"A", ":", ":", "B">>
    /\ StatedTarget = <<Space, "B">>
    /\ Cardinality(Patches) = 1
    /\ outcome.kind = "return"

\* an add-to-heading invocation with all it requires and list_headings true
Listing ==
    /\ IsToolCall("obsidian_add_to_heading")
    /\ required(call.name) \subseteq DOMAIN call.args
    /\ Get(call.args, "list_headings", FALSE)

\* C26: an add-to-heading invocation with list_headings true never issues
\* a PATCH request and never raises after argument validation: it returns
\* one text block that lists the file's headings, or the 'No headings
\* found' text when the file has none or could not be read.
C26_ListingNeverPatches ==
    Listing =>
        /\ Patches = {}
        /\ outcome.kind = "return"
        /\ outcome.value.type = "text"
        /\ IF PathsRead = <<>>
           THEN outcome.value.text
                    = <<"No headings found in ">> \o call.args["filepath"] \o <<".">>
           ELSE /\ StartsWith(outcome.value.text,
                              <<"Headings in ">> \o call.args["filepath"])
                /\ \A i \in DOMAIN PathsRead :
                       Contains(outcome.value.text,
                                <<" (path: ">> \o PathsRead[i] \o <<")">>)

\* the listing of a file that could not be read
C26_Witness ==
    /\ Listing
    /\ ReadFailed
    /\ outcome.kind = "return"
    /\ Head(outcome.value.text) = "No headings found in "

-----------------------------------------------------------------------------
(* Specification of path normalization: any path string, normalized once *)

InitNormalize ==
    /\ config \in Configs
    /\ call \in {[layer |-> "client", name |-> "_normalize_path", args |-> [path |-> p]] :
                    p \in StringsUpTo(MaxLen)}
    /\ reqs = <<>>
    /\ resps = <<>>
    /\ outcome = Pending

NormalizePath ==
    /\ call.name = "_normalize_path"
    /\ outcome = Pending
    /\ outcome' = Return(_normalize_path(call.args.path))
    /\ UNCHANGED <<config, call, reqs, resps>>

SpecNormalize == InitNormalize /\ [][NormalizePath]_vars

Normalized == call.name = "_normalize_path" /\ outcome.kind = "return"

\* C1: path normalization is idempotent: normalizing the result of
\* _normalize_path returns it unchanged.
C1_NormalizeIdempotent ==
    Normalized => _normalize_path(outcome.value) = outcome.value

\* C2: the result of _normalize_path contains no backslash and no two
\* consecutive forward slashes.
C2_NoBackslashNoDoubleSlash ==
    Normalized =>
        /\ ~Contains(outcome.value, <<Backslash>>)
        /\ ~Contains(outcome.value, <<Slash, Slash>>)

\* a path with a backslash and a run of three slashes has been normalized
C2_Witness ==
    /\ Normalized
    /\ Contains(call.args.path, <<Backslash>>)
    /\ Contains(call.args.path, <<"a", Slash, Slash, Slash>>)
    /\ outcome.value # <<>>

\* C3: the result of _normalize_path has no leading or trailing slash and no
\* leading or trailing whitespace.
C3_NoLeadingTrailingSlashOrSpace ==
    Normalized =>
        \/ outcome.value = <<>>
        \/ /\ Head(outcome.value) \notin {Slash} \cup Whitespace
           /\ outcome.value[Len(outcome.value)] \notin {Slash} \cup Whitespace

====
